---- MODULE Spec2Model ----
(***************************************************************************)
(* A model of the conversational Looker agent: the turn orchestrator       *)
(* (ConversationalAgent.process_query), the remote query client            *)
(* (LookerService), the query validator (ValidatorModule.forward), the     *)
(* time-intent normaliser (to_absolute_range), the two query builders      *)
(* (LookerQueryBuilder, DeterministicQueryBuilder), the conversation       *)
(* memory (ConversationMemory), the recipe catalog, the Slack application  *)
(* (SlackApp, SlackService) and the schema loader (ExploreSchemaLoader).   *)
(*                                                                         *)
(* Nine specifications share the module:                                   *)
(*   Spec           one conversation session driving process_query         *)
(*   SpecLooker     concurrent calls on one LookerService                  *)
(*   SpecValidator  ValidatorModule.forward applied once and twice         *)
(*   SpecDates      one call of to_absolute_range                          *)
(*   SpecBuilder    one call of build_query_from_intent, validate_query    *)
(*                  or _parse_and_validate_query                           *)
(*   SpecMemory     operations on one ConversationMemory                   *)
(*   SpecRecipes    calls of _build_query_from_recipe on one catalog       *)
(*   SpecSlack      SlackApp from start to the return of stop              *)
(*   SpecLoader     calls of load_schema while the file changes            *)
(* Each keeps the variables of the others parked at their initial values.  *)
(*                                                                         *)
(* Representation of text.  TLC cannot take a string apart, so text that   *)
(* the program parses is kept in parsed form and the parser is modelled as *)
(* the validity check it performs:                                         *)
(*   - a "YYYY-MM-DD" string is the tuple <<y, m, d>> of its three number  *)
(*     fields (strptime accepts it iff it names a calendar date); << >>    *)
(*     stands for None / the empty string;                                 *)
(*   - a JSON text is [kind, canon, obj]: whether it parses to an object,  *)
(*     whether it is byte-for-byte what json.dumps would write, and the    *)
(*     parsed object (a function from its keys);                           *)
(*   - a user text is the sequence of its space-separated tokens, and the  *)
(*     substring tests of the handlers are tables over the words used;     *)
(* text the program produces (the date range) is built as a real string.   *)
(***************************************************************************)
EXTENDS Integers, Sequences, FiniteSets, TLC

\* ------------------------------------------------------------------ bounds
\* Largest n of last_n_days among the validator's inputs.
MaxN == 7

\* ------------------------------------------------------------ date helpers
\* None, for values that are strings in the program.
NoneStr == "None"

\* None, for values that are date strings in the program.
NoneDate == << >>

IsLeap(y) == (y % 4 = 0 /\ y % 100 # 0) \/ y % 400 = 0

DaysInMonth(y, m) ==
    IF m \in {4, 6, 9, 11} THEN 30
    ELSE IF m = 2 THEN (IF IsLeap(y) THEN 29 ELSE 28)
    ELSE 31

\* datetime.strptime(s, "%Y-%m-%d") succeeds (ValueError / TypeError otherwise).
ValidDate(s) ==
    /\ Len(s) = 3
    /\ s[1] \in 1..9999
    /\ s[2] \in 1..12
    /\ s[3] \in 1..DaysInMonth(s[1], s[2])

\* A date - timedelta(days=1) that takes every month to have 30 days.
PrevDayThirty(dt) ==
    IF dt[3] > 1 THEN <<dt[1], dt[2], dt[3] - 1>>
    ELSE IF dt[2] > 1 THEN <<dt[1], dt[2] - 1, 30>>
    ELSE <<dt[1] - 1, 12, 30>>

\* date - timedelta(days=1)
PrevDay(dt) ==
    IF dt[3] > 1 THEN <<dt[1], dt[2], dt[3] - 1>>
    ELSE IF dt[2] > 1 THEN <<dt[1], dt[2] - 1, DaysInMonth(dt[1], dt[2] - 1)>>
    ELSE <<dt[1] - 1, 12, 31>>

\* date - timedelta(days=k), k >= 0
RECURSIVE MinusDays(_, _)
MinusDays(dt, k) == IF k = 0 THEN dt ELSE MinusDays(PrevDay(dt), k - 1)

\* date comparison start > end
DateGT(a, b) ==
    \/ a[1] > b[1]
    \/ a[1] = b[1] /\ a[2] > b[2]
    \/ a[1] = b[1] /\ a[2] = b[2] /\ a[3] > b[3]

Pad2(n) == IF n < 10 THEN "0" \o ToString(n) ELSE ToString(n)

Pad4(n) ==
    IF n < 10 THEN "000" \o ToString(n)
    ELSE IF n < 100 THEN "00" \o ToString(n)
    ELSE IF n < 1000 THEN "0" \o ToString(n)
    ELSE ToString(n)

\* date.isoformat()
isoformat(dt) == Pad4(dt[1]) \o "-" \o Pad2(dt[2]) \o "-" \o Pad2(dt[3])

\* ------------------------------------------------- to_absolute_range
\* A time_intent that is not a dict (a string, a list, null).
NonDictIntent == [k \in {"@nondict"} |-> "last week"]

\* The n of a time_intent: its JSON type and its value.
IntN(v) == [t |-> "int", v |-> v]

StrN(v) == [t |-> "str", v |-> v]

\* time_intent.get(key, default)
Get(d, key, default) == IF key \in DOMAIN d THEN d[key] ELSE default

\* A test of n that takes every value for an integer.
IsAnything(n) == TRUE

\* isinstance(n, int): JSON integers and booleans are ints, the rest is not.
IsInt(n) == n.t \in {"int", "bool"}

\* Preset branches that take the previous period to be the same month,
\* quarter or year number minus one, whatever the boundary.
PresetDatesNoCarry(time_intent, preset, today) ==
    CASE preset = "prev_month" ->
            <<<<today[1], today[2] - 1, 1>>,
              <<today[1], today[2] - 1, DaysInMonth(today[1], today[2])>>>>
      [] preset = "prev_quarter" ->
            LET quarter_month == ((today[2] - 1) \div 3) * 3 + 1
            IN <<<<today[1], quarter_month - 3, 1>>,
                 <<today[1], quarter_month - 1, DaysInMonth(today[1], quarter_month)>>>>
      [] preset = "prev_year" ->
            <<<<today[1] - 1, today[2], today[3]>>, <<today[1], today[2], today[3]>>>>
      [] OTHER -> << >>

\* The start and end dates to_absolute_range computes for a preset, before
\* the swap; << >> where it returns None or an exception sends it to the
\* handler that returns None.
PresetDates(time_intent, preset, today) ==
    CASE preset = "yesterday" -> <<PrevDay(today), PrevDay(today)>>
      [] preset = "today" -> <<today, today>>
      [] preset = "last_n_days" ->
            LET n == Get(time_intent, "n", IntN(7))
            IN IF ~IsInt(n) \/ n.v < 1 THEN << >>
               ELSE <<MinusDays(today, n.v - 1), today>>
      [] preset = "mtd" -> <<<<today[1], today[2], 1>>, today>>
      [] preset = "qtd" ->
            LET quarter_month == ((today[2] - 1) \div 3) * 3 + 1
            IN <<<<today[1], quarter_month, 1>>, today>>
      [] preset = "ytd" -> <<<<today[1], 1, 1>>, today>>
      [] preset = "prev_month" ->
            LET first_of_this_month == <<today[1], today[2], 1>>
                last_of_prev_month == PrevDay(first_of_this_month)
            IN <<<<last_of_prev_month[1], last_of_prev_month[2], 1>>,
                 last_of_prev_month>>
      [] preset = "prev_quarter" ->
            LET current_quarter_month == ((today[2] - 1) \div 3) * 3 + 1
                first_of_current_quarter == <<today[1], current_quarter_month, 1>>
                last_of_prev_quarter == PrevDay(first_of_current_quarter)
                prev_quarter_month == ((last_of_prev_quarter[2] - 1) \div 3) * 3 + 1
            IN <<<<last_of_prev_quarter[1], prev_quarter_month, 1>>,
                 last_of_prev_quarter>>
      [] preset = "prev_year" ->
            <<<<today[1] - 1, 1, 1>>, <<today[1] - 1, 12, 31>>>>
      [] preset = "absolute" ->
            LET start_str == Get(time_intent, "start", NoneDate)
                end_str == Get(time_intent, "end", NoneDate)
            IN IF start_str = NoneDate \/ end_str = NoneDate THEN << >>
               ELSE IF ~ValidDate(start_str) \/ ~ValidDate(end_str) THEN << >>
               ELSE <<start_str, end_str>>
      [] OTHER -> << >>

\* The range before formatting, without the swap of lines 131-134.
RangeDatesNoSwap(time_intent, today_iso) ==
    IF DOMAIN time_intent = {} \/ "@nondict" \in DOMAIN time_intent THEN << >>
    ELSE IF "preset" \notin DOMAIN time_intent THEN << >>
    ELSE IF ~ValidDate(today_iso) THEN << >>
    ELSE LET r == PresetDates(time_intent, time_intent["preset"], today_iso)
         IN IF r = << >> THEN << >>
            ELSE IF ~ValidDate(r[1]) \/ ~ValidDate(r[2]) THEN << >>
            ELSE r

\* The range before formatting: <<start, end>> with start <= end, or << >>
\* for None.
RangeDates(time_intent, today_iso) ==
    IF DOMAIN time_intent = {} \/ "@nondict" \in DOMAIN time_intent THEN << >>
    ELSE IF "preset" \notin DOMAIN time_intent THEN << >>
    ELSE IF ~ValidDate(today_iso) THEN << >>
    ELSE LET r == PresetDates(time_intent, time_intent["preset"], today_iso)
         IN IF r = << >> THEN << >>
            ELSE IF ~ValidDate(r[1]) \/ ~ValidDate(r[2]) THEN << >>
            ELSE IF DateGT(r[1], r[2]) THEN <<r[2], r[1]>>
            ELSE r

to_absolute_range(time_intent, today_iso) ==
    LET r == RangeDates(time_intent, today_iso)
    IN IF r = << >> THEN NoneStr
       ELSE isoformat(r[1]) \o " to " \o isoformat(r[2])

\* ------------------------------------------------------------- JSON text
\* A dict with no keys.
EmptyObj == [k \in {} |-> ""]

\* d with d[key] = value (Python: d[key] = value)
SetKey(d, key, value) == (key :> value) @@ d

\* del d[key]
DelKey(d, key) == [k \in DOMAIN d \ {key} |-> d[k]]

\* A JSON text as some producer wrote it (canon: exactly json.dumps' output).
JsonText(obj, canon) == [kind |-> "object", canon |-> canon, obj |-> obj]

\* A text json.loads rejects with JSONDecodeError.
Garbage == [kind |-> "garbage", canon |-> FALSE, obj |-> EmptyObj]

\* No text yet.
NoText == [kind |-> "none", canon |-> FALSE, obj |-> EmptyObj]

json_loads(text) == text.obj

json_dumps(obj) == [kind |-> "object", canon |-> TRUE, obj |-> obj]

\* --------------------------------------------------- ValidatorModule
\* The date field ValidatorModule.forward writes the range to.
DateField == "consumer_sessions.visit_day_date"

ClarifyTimeframe == "Please specify a valid timeframe (e.g., 'last 7 days', 'this month', or 'YYYY-MM-DD to YYYY-MM-DD')."

\* The opaque validation capability (dspy.ChainOfThought(ValidatorSignature)):
\* by its output contract it returns the query text unchanged, or a
\* clarification_request object of its own wording.
ValidatorLM(looker_query, verdict) ==
    IF verdict = "same" THEN looker_query
    ELSE JsonText([clarification_request |-> "Some fields are not in the schema."], FALSE)

\* The normalisation that leaves the range where the time_intent was.
NormalizeInPlace(query_json, today_iso) ==
    LET range_str == to_absolute_range(query_json["time_intent"], today_iso)
    IN IF range_str # NoneStr
       THEN json_dumps(SetKey(query_json, "time_intent",
                              [k \in {"@nondict"} |-> range_str]))
       ELSE json_dumps([clarification_request |-> ClarifyTimeframe])

\* The time_intent branch of forward, on the parsed query (view already set).
NormalizeTimeIntent(query_json, today_iso) ==
    LET time_intent == query_json["time_intent"]
        range_str == to_absolute_range(time_intent, today_iso)
    IN IF range_str # NoneStr
       THEN LET filters == Get(query_json, "filters", EmptyObj)
                withRange == SetKey(query_json, "filters",
                                    SetKey(filters, DateField, range_str))
            IN json_dumps(DelKey(withRange, "time_intent"))
       ELSE json_dumps([clarification_request |-> ClarifyTimeframe])

\* The post-processing of forward, on the text the capability returned.
PostProcess(validated_query_str, today_iso) ==
    IF validated_query_str.kind # "object" THEN validated_query_str
    ELSE LET query_json == json_loads(validated_query_str)
         IN IF "clarification_request" \notin DOMAIN query_json
               /\ "explore" \in DOMAIN query_json
            THEN LET withView == IF "view" \notin DOMAIN query_json
                                 THEN SetKey(query_json, "view", query_json["explore"])
                                 ELSE query_json
                 IN IF "time_intent" \in DOMAIN withView /\ today_iso # NoneDate
                    THEN NormalizeTimeIntent(withView, today_iso)
                    ELSE json_dumps(withView)
            ELSE validated_query_str

\* ValidatorModule.forward(looker_query, schema_json, today_iso)
forward(looker_query, verdict, today_iso) ==
    PostProcess(ValidatorLM(looker_query, verdict), today_iso)

\* ------------------------------------------------------------ user text
\* A user text is the sequence of its space-separated tokens.  A token is a
\* word or a run of digits; a run of digits is kept as its value and its
\* number of digits.
W(w) == [w |-> w, n |-> 0, digits |-> 0]

N(n) == [w |-> "", n |-> n, digits |-> Len(ToString(n))]

IsNum(tok) == tok.digits > 0

\* str.lower() on the words of the vocabulary.
lower(w) ==
    CASE w = "Show" -> "show"
      [] w = "Revenue" -> "revenue"
      [] OTHER -> w

\* The keyword words that occur in the (lower-case) word w: Python's `kw in w`.
SubstringsOf(w) ==
    CASE w = "by" -> {}
      [] w = "clear" -> {"clear"}
      [] w = "countries" -> {"count", "countries"}
      [] w = "country" -> {"count", "country"}
      [] w = "customers" -> {"customer", "customers"}
      [] w = "days" -> {"day"}
      [] w = "first" -> {"first"}
      [] w = "hello" -> {"hello"}
      [] w = "history" -> {"hi"}
      [] w = "in" -> {}
      [] w = "is" -> {}
      [] w = "june" -> {"june"}
      [] w = "last" -> {"last"}
      [] w = "maybe" -> {"may"}
      [] w = "me" -> {}
      [] w = "months" -> {"month"}
      [] w = "orders" -> {"orders"}
      [] w = "over" -> {"over"}
      [] w = "past" -> {"past"}
      [] w = "results" -> {"result"}
      [] w = "revenue" -> {"revenue"}
      [] w = "sales" -> {"sales"}
      [] w = "show" -> {"how", "show"}
      [] w = "this" -> {"hi"}
      [] w = "time" -> {"time"}
      [] w = "top" -> {"top"}
      [] w = "trending" -> {"trend"}
      [] w = "type" -> {"type"}
      [] w = "what" -> {}
      [] OTHER -> {}

\* The keyword words that w starts with.
PrefixesOf(w) ==
    CASE w = "by" -> {}
      [] w = "clear" -> {"clear"}
      [] w = "countries" -> {"count", "countries"}
      [] w = "country" -> {"count", "country"}
      [] w = "customers" -> {"customer", "customers"}
      [] w = "days" -> {"day"}
      [] w = "first" -> {"first"}
      [] w = "hello" -> {"hello"}
      [] w = "history" -> {"hi"}
      [] w = "in" -> {}
      [] w = "is" -> {}
      [] w = "june" -> {"june"}
      [] w = "last" -> {"last"}
      [] w = "maybe" -> {"may"}
      [] w = "me" -> {}
      [] w = "months" -> {"month"}
      [] w = "orders" -> {"orders"}
      [] w = "over" -> {"over"}
      [] w = "past" -> {"past"}
      [] w = "results" -> {"result"}
      [] w = "revenue" -> {"revenue"}
      [] w = "sales" -> {"sales"}
      [] w = "show" -> {"show"}
      [] w = "this" -> {}
      [] w = "time" -> {"time"}
      [] w = "top" -> {"top"}
      [] w = "trending" -> {"trend"}
      [] w = "type" -> {"type"}
      [] w = "what" -> {}
      [] OTHER -> {}

\* The keyword words that w ends with.
SuffixesOf(w) ==
    CASE w = "by" -> {}
      [] w = "clear" -> {"clear"}
      [] w = "countries" -> {"countries"}
      [] w = "country" -> {"country"}
      [] w = "customers" -> {"customers"}
      [] w = "days" -> {}
      [] w = "first" -> {"first"}
      [] w = "hello" -> {"hello"}
      [] w = "history" -> {}
      [] w = "in" -> {}
      [] w = "is" -> {}
      [] w = "june" -> {"june"}
      [] w = "last" -> {"last"}
      [] w = "maybe" -> {}
      [] w = "me" -> {}
      [] w = "months" -> {}
      [] w = "orders" -> {"orders"}
      [] w = "over" -> {"over"}
      [] w = "past" -> {"past"}
      [] w = "results" -> {}
      [] w = "revenue" -> {"revenue"}
      [] w = "sales" -> {"sales"}
      [] w = "show" -> {"how", "show"}
      [] w = "this" -> {}
      [] w = "time" -> {"time"}
      [] w = "top" -> {"top"}
      [] w = "trending" -> {}
      [] w = "type" -> {"type"}
      [] w = "what" -> {}
      [] OTHER -> {}

\* The lower-cased word at position i ("" for a number or past the end).
lw(text, i) == IF i \in 1..Len(text) THEN lower(text[i].w) ELSE ""

\* A keyword is the sequence of its words.  `kw in user_query.lower()` with
\* the occurrence starting in token i: a one-word keyword lies inside the
\* token; a keyword of several words ends token i, fills the tokens between
\* and starts the last one.
KwAt(kw, text, i) ==
    IF Len(kw) = 1 THEN kw[1] \in SubstringsOf(lw(text, i))
    ELSE /\ i + Len(kw) - 1 <= Len(text)
         /\ kw[1] \in SuffixesOf(lw(text, i))
         /\ kw[Len(kw)] \in PrefixesOf(lw(text, i + Len(kw) - 1))
         /\ \A j \in 2..(Len(kw) - 1) : lw(text, i + j - 1) = kw[j]

KwIn(kw, text) == \E i \in 1..Len(text) : KwAt(kw, text, i)

\* any(kw in user_query.lower() for kw in keywords)
AnyKwIn(keywords, text) == \E kw \in keywords : KwIn(kw, text)

Min(S) == CHOOSE x \in S : \A y \in S : x <= y

\* re.search(r"<word> (\d+)", text): the positions i where token i ends with
\* the word and token i+1 is a number.
WordNumAt(word, text) ==
    {i \in 1..(Len(text) - 1) : word \in SuffixesOf(lw(text, i)) /\ IsNum(text[i + 1])}

\* re.search(r"<word> (\d+) <unit>s?", text)
WordNumUnitAt(word, unit, text) ==
    {i \in WordNumAt(word, text) : unit \in PrefixesOf(lw(text, i + 2))}

\* re.search(r"(\d+) <unit>s?", text): the positions of the number.
NumUnitAt(unit, text) ==
    {i \in 1..(Len(text) - 1) : IsNum(text[i]) /\ unit \in PrefixesOf(lw(text, i + 1))}

\* re.search(r"(\d{4})", text): the positions of the runs of four digits or more.
FourDigitsAt(text) == {i \in 1..Len(text) : text[i].digits >= 4}

RECURSIVE Pow10(_)
Pow10(k) == IF k = 0 THEN 1 ELSE 10 * Pow10(k - 1)

\* The first four digits of a run of digits.
FirstFour(tok) == tok.n \div Pow10(tok.digits - 4)

MonthNames ==
    {"january", "february", "march", "april", "may", "june", "july", "august",
     "september", "october", "november", "december"}

\* re.search(r"(january|...|december)", text)
MonthNameIn(text) == \E i \in 1..Len(text) : SubstringsOf(lw(text, i)) \cap MonthNames # {}

\* ------------------------------------------------- LookerQueryBuilder
dimension_keywords ==
    << [name |-> "country",
        keywords |-> {<<"country">>, <<"countries">>, <<"region">>, <<"location">>}],
       [name |-> "date",
        keywords |-> {<<"time">>, <<"date">>, <<"month">>, <<"year">>, <<"trend">>,
                      <<"over", "time">>}],
       [name |-> "product_category",
        keywords |-> {<<"product">>, <<"category">>, <<"type">>, <<"item">>}],
       [name |-> "customer_segment",
        keywords |-> {<<"segment">>, <<"customer">>, <<"client">>, <<"type">>}] >>

measure_keywords ==
    << [name |-> "revenue",
        keywords |-> {<<"revenue">>, <<"sales">>, <<"income">>, <<"money">>, <<"dollars">>}],
       [name |-> "order_count",
        keywords |-> {<<"orders">>, <<"transactions">>, <<"purchases">>, <<"count">>}],
       [name |-> "customer_count",
        keywords |-> {<<"customers">>, <<"users">>, <<"people">>, <<"clients">>}] >>

\* A loop over a keyword table that keeps the last entry with a keyword in
\* the text, not the first.
SelectLastByKeyword(tbl, known, text, default) ==
    LET hits == {i \in 1..Len(tbl) : tbl[i].name \in known /\ AnyKwIn(tbl[i].keywords, text)}
    IN IF hits # {} THEN <<tbl[CHOOSE i \in hits : \A j \in hits : j <= i].name>>
       ELSE IF default \in known THEN <<default>>
       ELSE << >>

\* The loop over a keyword table: the first entry, in table order, that the
\* schema knows and that has a keyword in the text; then the default.
SelectByKeyword(tbl, known, text, default) ==
    LET hits == {i \in 1..Len(tbl) : tbl[i].name \in known /\ AnyKwIn(tbl[i].keywords, text)}
    IN IF hits # {} THEN <<tbl[Min(hits)].name>>
       ELSE IF default \in known THEN <<default>>
       ELSE << >>

\* _add_dimensions: query["dimensions"] afterwards
add_dimensions(dimensions, params, user_query) ==
    IF "dimension" \in DOMAIN params /\ params["dimension"] \in dimensions
    THEN <<params["dimension"]>>
    ELSE SelectByKeyword(dimension_keywords, dimensions, user_query, "country")

\* _add_measures: query["measures"] afterwards
add_measures(measures, params, user_query) ==
    IF "measure" \in DOMAIN params /\ params["measure"] \in measures
    THEN <<params["measure"]>>
    ELSE SelectByKeyword(measure_keywords, measures, user_query, "revenue")

\* _add_filters: query["filters"] afterwards.  The first pattern that matches
\* ends the scan; a month name matches and sets nothing.
add_filters(params, user_query) ==
    LET base == IF "filters" \in DOMAIN params THEN params["filters"] ELSE EmptyObj
        days == WordNumUnitAt("last", "day", user_query)
        months == WordNumUnitAt("past", "month", user_query)
        years == FourDigitsAt(user_query)
    IN IF days # {}
       THEN SetKey(base, "date", "last " \o ToString(user_query[Min(days) + 1].n) \o " days")
       ELSE IF months # {}
       THEN SetKey(base, "date", "last " \o ToString(user_query[Min(months) + 1].n) \o " months")
       ELSE IF years # {}
       THEN SetKey(base, "date", "year " \o ToString(FirstFour(user_query[Min(years)])))
       ELSE base

\* _add_sorts: query["sorts"] afterwards
add_sorts(measures, params) ==
    IF "sort" \in DOMAIN params THEN <<params["sort"]>>
    ELSE IF measures # << >> THEN <<measures[1] \o " desc">>
    ELSE << >>

\* "limit": 10 of the query build_query_from_intent starts from
DefaultLimit == 10

\* A _set_limit that tries 'N results' before the other patterns.
set_limit_results_first(params, user_query) ==
    LET top == WordNumAt("top", user_query)
        first == WordNumAt("first", user_query)
        show == WordNumAt("show", user_query)
        results == NumUnitAt("result", user_query)
    IN IF "limit" \in DOMAIN params THEN params["limit"]
       ELSE IF results # {} THEN user_query[Min(results)].n
       ELSE IF top # {} THEN user_query[Min(top) + 1].n
       ELSE IF first # {} THEN user_query[Min(first) + 1].n
       ELSE IF show # {} THEN user_query[Min(show) + 1].n
       ELSE DefaultLimit

\* _set_limit: query["limit"] afterwards
set_limit(params, user_query) ==
    LET top == WordNumAt("top", user_query)
        first == WordNumAt("first", user_query)
        show == WordNumAt("show", user_query)
        results == NumUnitAt("result", user_query)
    IN IF "limit" \in DOMAIN params THEN params["limit"]
       ELSE IF top # {} THEN user_query[Min(top) + 1].n
       ELSE IF first # {} THEN user_query[Min(first) + 1].n
       ELSE IF show # {} THEN user_query[Min(show) + 1].n
       ELSE IF results # {} THEN user_query[Min(results)].n
       ELSE DefaultLimit

\* _get_default_query_with_view (and the builder's _get_default_query)
ClarificationNeeded ==
    [error |-> "clarification_needed",
     message |-> "I need more specific information. Try asking: 'sessions this month', 'sessions by country', 'sessions today', 'top countries by sessions', 'sessions over time'"]

\* LookerQueryBuilder.build_query_from_intent
build_query_from_intent(schema, user_query, intent_params) ==
    LET dims == add_dimensions(schema.dims, intent_params, user_query)
        meas == add_measures(schema.meas, intent_params, user_query)
    IN IF dims = << >> /\ meas = << >> THEN ClarificationNeeded
       ELSE [model |-> schema.model,
             view |-> schema.explore,
             explore |-> schema.explore,
             dimensions |-> dims,
             measures |-> meas,
             sorts |-> add_sorts(meas, intent_params),
             filters |-> add_filters(intent_params, user_query),
             limit |-> set_limit(intent_params, user_query)]

\* ------------------------------------------------- ConversationalAgent
\* Calls of process_query in one behaviour.
MaxTurns == 1

\* The Literal of TriageSignature.intent
Intents ==
    {"GATHER_DATA_FROM_LOOKER", "GET_EXECUTIVE_SUMMARY", "DRILL_DOWN_ANALYSIS",
     "AGENT_CAPABILITIES", "DATA_SOURCE_INFO", "FRIENDLY_CONVERSATION",
     "MANAGE_CONVERSATION", "OTHER"}

\* What the triage module does: it returns one of its intents, or it raises
\* (the model call fails, or its answer is none of the intents).
TriageOutcomes == Intents \cup {"raise"}

\* _detect_intent with another default intent.
detect_intent_other(outcome) == IF outcome = "raise" THEN "OTHER" ELSE outcome

\* _detect_intent: the triage result, or DefaultIntentResult when it raises
detect_intent(outcome) ==
    IF outcome = "raise" THEN "FRIENDLY_CONVERSATION" ELSE outcome

\* The schema files initialize_looker_schema may find: none that loads, one
\* whose field names are plain, one whose field names carry the view, and one
\* that has the required keys but whose "filters" entries are no objects.
SchemaFiles ==
    { [loads |-> FALSE, entries_ok |-> FALSE, model |-> "", explore |-> "",
       filters |-> {}, measures |-> {}],
      [loads |-> TRUE, entries_ok |-> TRUE, model |-> "sales", explore |-> "orders",
       filters |-> {"country"}, measures |-> {"revenue", "order_count"}],
      [loads |-> TRUE, entries_ok |-> TRUE, model |-> "bg", explore |-> "consumer_sessions",
       filters |-> {"consumer_sessions.country", DateField},
       measures |-> {"consumer_sessions.sessions"}],
      [loads |-> TRUE, entries_ok |-> FALSE, model |-> "sales", explore |-> "orders",
       filters |-> {}, measures |-> {}] }

\* self.schema = None
NoSchema == [loaded |-> FALSE, model |-> "", explore |-> "", dims |-> {}, meas |-> {}]

\* schema_loader.load_schema(): the file's content, or it raises
load_schema(file) ==
    IF file.loads
    THEN [loaded |-> TRUE, model |-> file.model, explore |-> file.explore,
          dims |-> file.filters, meas |-> file.measures]
    ELSE NoSchema

\* self.recipes: the shape of config/looker_recipes.json
recipes ==
    [recipes |-> << [name |-> "test_recipe",
                     query_template |-> [dimensions |-> <<"country">>,
                                         measures |-> <<"revenue">>,
                                         limit |-> 10]] >>,
     parameter_mappings |-> [dimensions |-> [k \in {"country"} |-> "country"]]]

\* What the query curator answers: no recipe, a recipe with its parameters,
\* a recipe the file does not have, parameters that are no JSON; or it raises.
CuratorOutcomes ==
    { [kind |-> "raise", recipe_name |-> "", parameters |-> EmptyObj],
      [kind |-> "ok", recipe_name |-> "none", parameters |-> EmptyObj],
      [kind |-> "ok", recipe_name |-> "test_recipe", parameters |-> EmptyObj],
      [kind |-> "ok", recipe_name |-> "test_recipe", parameters |-> [limit |-> 5]],
      [kind |-> "bad_json", recipe_name |-> "test_recipe", parameters |-> EmptyObj],
      [kind |-> "ok", recipe_name |-> "sales_by_region", parameters |-> EmptyObj] }

\* _get_default_query
get_default_query ==
    [model |-> "default_model", explore |-> "default_explore",
     dimensions |-> <<"country">>, measures |-> <<"revenue">>,
     sorts |-> <<"revenue desc">>, limit |-> 10]

SeqToSet(s) == {s[i] : i \in DOMAIN s}

\* _build_query_from_recipe
build_query_from_recipe(recipe_name, parameters) ==
    LET found == {i \in DOMAIN recipes.recipes : recipes.recipes[i].name = recipe_name}
    IN IF found = {} THEN get_default_query
       ELSE LET template == recipes.recipes[Min(found)].query_template
                mapping == recipes.parameter_mappings.dimensions
                limited == IF "limit" \in DOMAIN parameters
                           THEN [template EXCEPT !.limit = parameters["limit"]]
                           ELSE template
                mapped == {mapping[p] : p \in DOMAIN parameters \cap DOMAIN mapping}
                missing == mapped \ SeqToSet(template.dimensions)
            IN IF missing = {} THEN limited
               ELSE [limited EXCEPT !.dimensions = @ \o <<CHOOSE d \in missing : TRUE>>]

\* Step 2 of _handle_data_query: the query_config of the turn
BuildQuery(schema, query_builder, curated, user_query) ==
    IF curated.recipe_name # "none"
    THEN build_query_from_recipe(curated.recipe_name, curated.parameters)
    ELSE IF query_builder
    THEN build_query_from_intent(schema, user_query, EmptyObj)
    ELSE get_default_query

\* The clarification check that never finds one.
NeverNeedsClarification(query_config) == FALSE

\* query_config.get("error") == "clarification_needed"
NeedsClarification(query_config) ==
    Get(query_config, "error", "") = "clarification_needed"

\* What run_inline_query does with a query: rows, no rows, or LookerAPIError.
RunOutcomes == {"rows", "empty", "status_500", "network"}

\* str(e) of the exceptions raised inside a turn
ExceptionText(what) ==
    CASE what = "status_500" -> "Query failed with status 500: Internal Server Error"
      [] what = "network" -> "Network error during query: All connection attempts failed"
      [] what = "bad_json" -> "Expecting value: line 1 column 1 (char 0)"
      [] what = "no_builder" -> "'NoneType' object has no attribute 'get_available_dimensions'"
      [] OTHER -> "litellm.APIConnectionError"

LookerRows(outcome) == IF outcome = "rows" THEN <<"row">> ELSE << >>

\* The responses of the handlers.
ClarificationResponse(query_config) ==
    [message |-> query_config.message, status |-> "clarification_needed",
     intent |-> "data_query"]

DataQuerySuccess(response_text, looker_data, query_config) ==
    [message |-> response_text, status |-> "success", data |-> looker_data,
     query |-> query_config, intent |-> "data_query"]

\* the except clause of _handle_data_query
DataQueryError(e) ==
    [message |-> "I encountered an error retrieving the data. Please try rephrasing your question.",
     status |-> "error", error |-> e]

\* the except clause of process_query
ProcessQueryError(e) ==
    [message |-> "I encountered an error processing your request. Please try again.",
     status |-> "error", error |-> e]

SynthesizedText == "Revenue is highest in the US."

\* _get_recent_conversation_data: the queries of the last three turns whose
\* recorded intent is "data_query" ("" is the empty sequence)
get_recent_conversation_data(conversation_history) ==
    LET n == Len(conversation_history)
        recent == SubSeq(conversation_history, IF n > 3 THEN n - 2 ELSE 1, n)
    IN SelectSeq(recent, LAMBDA turn : Get(turn.metadata, "intent", "") = "data_query")

NoRecentData ==
    [message |-> "I don't have any recent data to summarize. Please ask me to retrieve some data first.",
     status |-> "info"]

ExecutiveSummary(summary_response) ==
    [message |-> summary_response, status |-> "success", intent |-> "executive_summary"]

handle_drill_down ==
    [message |-> "I can help you drill down into specific data. Please specify what dimension you'd like to drill down by.",
     status |-> "info", intent |-> "drill_down"]

handle_capabilities_query ==
    [message |-> "I'm a conversational AI agent that can help you with your data. Just ask me questions about your data in natural language!",
     status |-> "success", intent |-> "capabilities"]

handle_data_source_info(schema) ==
    [message |-> IF schema.loaded
                 THEN "I have access to the following data: dimensions and measures of " \o schema.explore
                 ELSE "I'm still connecting to the data source. Please try again in a moment.",
     status |-> "success", intent |-> "data_source_info"]

friendly_responses ==
    << [key |-> <<"hello">>,
        message |-> "Hello! I'm here to help you explore your Looker data. What would you like to know?"],
       [key |-> <<"hi">>,
        message |-> "Hi there! Ready to dive into some data analysis?"],
       [key |-> <<"thank">>,
        message |-> "You're welcome! Happy to help with your data questions."],
       [key |-> <<"how", "are", "you">>,
        message |-> "I'm doing great and ready to help you with data analysis! What can I show you today?"] >>

handle_friendly_conversation(user_query) ==
    LET hits == {i \in DOMAIN friendly_responses : KwIn(friendly_responses[i].key, user_query)}
    IN [message |-> IF hits # {} THEN friendly_responses[Min(hits)].message
                    ELSE "Thanks for the kind words! Is there anything specific about your data you'd like to explore?",
        status |-> "success", intent |-> "friendly"]

\* any(phrase in query_lower for phrase in ["clear", "reset", "start over"])
AsksToClear(user_query) ==
    AnyKwIn({<<"clear">>, <<"reset">>, <<"start", "over">>}, user_query)

handle_conversation_management(user_query, conversation_history) ==
    IF AsksToClear(user_query)
    THEN [message |-> "I've cleared our conversation history. We can start fresh! What would you like to explore?",
          status |-> "success", intent |-> "conversation_management"]
    ELSE [message |-> "We've had " \o ToString(Len(conversation_history))
                        \o " conversation turns so far. I can help you clear the conversation or continue where we left off.",
          status |-> "info", intent |-> "conversation_management"]

handle_other_query ==
    [message |-> "I'm not sure how to help with that specific request. I'm designed to help you explore and analyze your Looker data.",
     status |-> "info", intent |-> "other"]

\* memory.add_turn (the timestamp and the session id left out)
add_turn(conversation_history, user_query, agent_response, intent) ==
    Append(conversation_history,
           [user_query |-> user_query, agent_response |-> agent_response,
            metadata |-> [intent |-> intent]])

\* ConversationMemory.__init__: the profile of a new session
NewProfile == [preferences |-> EmptyObj, data_interests |-> << >>]

\* _extract_data_interests: the interests the query shows, in the order found
data_interests_of(user_query) ==
    LET pick(words, interest) == IF AnyKwIn(words, user_query) THEN <<interest>> ELSE << >>
    IN pick({<<"revenue">>, <<"sales">>, <<"income">>}, "revenue_analysis")
         \o pick({<<"customer">>, <<"user">>, <<"client">>}, "customer_analytics")
         \o pick({<<"trend">>, <<"time">>, <<"over", "time">>}, "trend_analysis")
         \o pick({<<"country">>, <<"region">>, <<"location">>}, "geographic_analysis")

RECURSIVE add_data_interests(_, _)
\* memory.add_data_interest for each interest
add_data_interests(data_interests, interests) ==
    IF interests = << >> THEN data_interests
    ELSE add_data_interests(
             IF Head(interests) \in SeqToSet(data_interests) THEN data_interests
             ELSE Append(data_interests, Head(interests)),
             Tail(interests))

\* What the insight extractor answers: no preference_updates, updates that
\* parse, updates that are no JSON; or it raises.
InsightOutcomes == {"raise", "none", "updates", "bad_json"}

\* _extract_insights: the user profile afterwards
extract_insights(user_profile, user_query, outcome) ==
    IF outcome = "raise" THEN user_profile
    ELSE LET updated == IF outcome = "updates"
                        THEN [user_profile EXCEPT !.preferences = [format |-> "table"]]
                        ELSE user_profile
         IN [updated EXCEPT !.data_interests =
                              add_data_interests(@, data_interests_of(user_query))]

\* What a conversational surface shows of a response: the texts it puts on
\* the screen or into the channel.
Surfaces == {"cli", "slack"}

\* ConversationalAgentCLI.run_interactive: the message, the rows of a
\* success, and the error of an error
CliShows(response) ==
    {response.message}
      \cup (IF response.status = "success" /\ Get(response, "data", << >>) # << >>
            THEN SeqToSet(response.data) ELSE {})
      \cup (IF response.status = "error"
            THEN {Get(response, "error", "Unknown error")} ELSE {})

\* SlackService._format_response_for_slack: the message behind a status mark
SlackShows(response) == {Get(response, "message", "")}

Shows(surface, response) ==
    IF surface = "cli" THEN CliShows(response) ELSE SlackShows(response)

\* The texts users send.
UserQueries ==
    { <<W("Show"), W("me"), W("revenue"), W("by"), W("country"), W("last"), N(7), W("days")>>,
      <<W("clear"), W("history")>>,
      <<W("top"), N(5), W("customers"), W("in"), N(2024)>> }

\* What one call of process_query has done so far: the calls of
\* run_inline_query and of the synthesizer, the turns appended, whether the
\* triage module raised, the body handed to run_inline_query and the text of
\* the exception run_inline_query raised.
NoQuery == EmptyObj

NoResponse == EmptyObj

NewTrace ==
    [runCalls |-> 0, synthCalls |-> 0, appended |-> 0, triageRaised |-> FALSE,
     sent |-> NoQuery, execError |-> "", insightCalls |-> 0,
     profileBefore |-> NewProfile]

\* ------------------- validate_query and _parse_and_validate_query
\* [x for x in seq if x in known]
RECURSIVE KeepKnown(_, _)
KeepKnown(seq, known) ==
    IF seq = << >> THEN << >>
    ELSE IF seq[1] \in known THEN <<seq[1]>> \o KeepKnown(Tail(seq), known)
    ELSE KeepKnown(Tail(seq), known)

\* LookerQueryBuilder.validate_query
validate_query(schema, query) ==
    LET dimensions == KeepKnown(Get(query, "dimensions", << >>), SeqToSet(schema.filters))
        measures == KeepKnown(Get(query, "measures", << >>), SeqToSet(schema.measures))
        none == dimensions = << >> /\ measures = << >>
    IN SetKey(SetKey(query, "dimensions",
                     IF none /\ schema.filters # << >>
                     THEN <<schema.filters[1]>> ELSE dimensions),
              "measures",
              IF none /\ schema.measures # << >>
              THEN <<schema.measures[1]>> ELSE measures)

\* d.setdefault-like: d[key] = value if key not in d
SetMissing(d, key, value) == IF key \in DOMAIN d THEN d ELSE SetKey(d, key, value)

\* "limit": 10 of _parse_and_validate_query
ParsedDefaultLimit == 10

\* DeterministicQueryBuilder._parse_and_validate_query
parse_and_validate_query(schema, query_json) ==
    IF query_json.kind # "object"
    THEN [model |-> schema.model, view |-> schema.explore, explore |-> schema.explore,
          fields |-> <<"consumer_sessions.sessions">>, filters |-> EmptyObj,
          limit |-> ParsedDefaultLimit]
    ELSE LET q1 == SetMissing(json_loads(query_json), "model", schema.model)
             q2 == SetMissing(q1, "view", schema.explore)
             q3 == SetMissing(q2, "explore", schema.explore)
             q4 == IF Get(q3, "fields", << >>) = << >> /\ Get(q3, "measures", << >>) = << >>
                   THEN SetKey(q3, "fields", <<"consumer_sessions.sessions">>)
                   ELSE q3
             q5 == SetMissing(q4, "limit", ParsedDefaultLimit)
         IN SetMissing(q5, "filters", EmptyObj)

\* ================================================================ state
VARIABLES
    \* --- SpecValidator: one use of ValidatorModule.forward and a second on its output
    vQuery,     \* looker_query, the text handed to forward
    vToday,     \* today_iso (NoneDate when the caller leaves it out)
    vOnce,      \* forward(looker_query)
    vTwice,     \* forward(forward(looker_query))
    vStage,     \* "input", "once", "twice"
    \* --- SpecLooker: one LookerService and the coroutines calling it
    client,            \* self.client: "none" or "open"
    access_token,      \* self.access_token: "none" or the token
    token_expires_at,  \* self.token_expires_at: << >> (None) or <<seconds>>
    now,               \* datetime.now(), in seconds
    call,              \* per caller: where its call stands
    \* --- Spec: one ConversationalAgent and its conversational surface
    pc,                    \* where process_query stands
    user_query,            \* the text of the turn
    intent,                \* intent_result.intent
    schema,                \* self.schema
    query_builder,         \* self.query_builder is not None
    query_config,          \* the query_config of _handle_data_query
    looker_data,           \* the rows run_inline_query returned
    response,              \* the response process_query returns
    conversation_history,  \* memory.conversation_history
    user_profile,          \* memory.user_profile
    turns,                 \* calls of process_query that have returned
    trace,                 \* what the current call has done so far
    shown,                 \* what the surface showed of the last response
    \* --- SpecDates: one call of to_absolute_range
    dIntent,    \* time_intent
    dToday,     \* today_iso
    dRange,     \* <<start_date, end_date>> when the result is formatted, << >> otherwise
    dResult,    \* the value returned
    dStage,     \* "input", "done"
    \* --- SpecBuilder: one LookerQueryBuilder / DeterministicQueryBuilder and one call
    bSchema,    \* the explore schema the builders were constructed with
    bText,      \* user_query of build_query_from_intent
    bParams,    \* intent_params of build_query_from_intent
    bQuery,     \* query of validate_query
    bJson,      \* query_json of _parse_and_validate_query
    bOp,        \* "input", or the operation that was called
    bOut,       \* what the operation returned
    \* --- SpecMemory: one ConversationMemory
    mHistory,   \* self.conversation_history
    mProfile,   \* self.user_profile
    mNow,       \* datetime.now(), counted in operations
    mLast,      \* the last operation: its name, argument, result and the state before it
    \* --- SpecRecipes: the recipe catalog of one agent
    rCatalog,   \* self.recipes
    rLast,      \* the last call of _build_query_from_recipe and its result
    rCalls,     \* calls made so far
    \* --- SpecSlack: SlackApp.stop on one SlackService
    sRunning,       \* SlackService._running
    sHandler,       \* the Socket Mode connection: "open", "closing", "closed"
    sHandlerRef,    \* self.socket_mode_handler is not None
    sAppClient,     \* the AsyncWebClient session: "open", "closing", "closed"
    sAppRef,        \* self.app is not None
    sLookerClient,  \* the agent's LookerService client: "none", "open", "closed"
    sPc,            \* where SlackApp.stop stands
    sElapsed,       \* seconds since SlackApp.stop was called
    sWait,          \* seconds the inner wait_for has waited
    \* --- SpecLoader: one ExploreSchemaLoader and its file
    lFile,      \* what the schema file holds now
    lCache,     \* self._cached_schema
    lReads,     \* how often the file was opened
    lLast       \* the last call of load_schema: what it did and returned

valVars == <<vQuery, vToday, vOnce, vTwice, vStage>>

lookerVars == <<client, access_token, token_expires_at, now, call>>

agentVars == <<pc, user_query, intent, schema, query_builder, query_config, looker_data,
               response, conversation_history, user_profile, turns, trace, shown>>

dateVars == <<dIntent, dToday, dRange, dResult, dStage>>

builderVars == <<bSchema, bText, bParams, bQuery, bJson, bOp, bOut>>

memVars == <<mHistory, mProfile, mNow, mLast>>

recipeVars == <<rCatalog, rLast, rCalls>>

slackVars == <<sRunning, sHandler, sHandlerRef, sAppClient, sAppRef, sLookerClient,
               sPc, sElapsed, sWait>>

loaderVars == <<lFile, lCache, lReads, lLast>>

vars == <<valVars, lookerVars, agentVars, dateVars, builderVars,
          memVars, recipeVars, slackVars, loaderVars>>

\* The agent's variables while another specification runs.
AgentParked ==
    /\ pc = "parked"
    /\ user_query = << >>
    /\ intent = "none"
    /\ schema = NoSchema
    /\ query_builder = FALSE
    /\ query_config = NoQuery
    /\ looker_data = << >>
    /\ response = NoResponse
    /\ conversation_history = << >>
    /\ user_profile = NewProfile
    /\ turns = 0
    /\ trace = NewTrace
    /\ shown = {}

\* The validator's variables while another specification runs.
ValidatorParked ==
    /\ vQuery = NoText
    /\ vToday = NoneDate
    /\ vOnce = NoText
    /\ vTwice = NoText
    /\ vStage = "parked"

\* The date normalizer's variables while another specification runs.
DatesParked ==
    /\ dIntent = EmptyObj
    /\ dToday = NoneDate
    /\ dRange = << >>
    /\ dResult = NoneStr
    /\ dStage = "parked"

\* The builders' variables while another specification runs.
BuilderParked ==
    /\ bSchema = EmptyObj
    /\ bText = << >>
    /\ bParams = EmptyObj
    /\ bQuery = EmptyObj
    /\ bJson = NoText
    /\ bOp = "parked"
    /\ bOut = EmptyObj

\* The memory's variables while another specification runs.
MemoryParked ==
    /\ mHistory = << >>
    /\ mProfile = EmptyObj
    /\ mNow = 0
    /\ mLast = EmptyObj

\* The recipe catalog's variables while another specification runs.
RecipesParked ==
    /\ rCatalog = EmptyObj
    /\ rLast = EmptyObj
    /\ rCalls = 0

\* The Slack application's variables while another specification runs.
SlackParked ==
    /\ sRunning = FALSE
    /\ sHandler = "closed"
    /\ sHandlerRef = FALSE
    /\ sAppClient = "closed"
    /\ sAppRef = FALSE
    /\ sLookerClient = "none"
    /\ sPc = "parked"
    /\ sElapsed = 0
    /\ sWait = 0

\* The schema loader's variables while another specification runs.
LoaderParked ==
    /\ lFile = EmptyObj
    /\ lCache = EmptyObj
    /\ lReads = 0
    /\ lLast = EmptyObj

\* The variables of the specifications defined further down, parked.
OthersParked == MemoryParked /\ RecipesParked /\ SlackParked /\ LoaderParked

otherVars == <<memVars, recipeVars, slackVars, loaderVars>>

\* ------------------------------------------------------- LookerService
\* Coroutines that may be inside run_inline_query / get_explore_schema at once.
NumCallers == 2

\* The clock stops here.
MaxNow == 60

\* auth_data.get("expires_in", 3600)
DefaultExpiresIn == 3600

\* timedelta(seconds=expires_in - 60): the refresh buffer
ExpiryBuffer == 60

Callers == 1..NumCallers

Tokens == {"tokA", "tokB"}

\* What the login endpoint may answer: 200 with a token and an expires_in,
\* 200 with a token and no expires_in, 200 with a token and an expires_in
\* that is no number (null), 200 with an access_token that is null, a
\* non-200 status, a body without access_token, or no answer at all
\* (httpx.RequestError).
LoginOutcomes ==
    {[kind |-> "ok", expires_in |-> 2 * ExpiryBuffer]}
      \cup {[kind |-> k, expires_in |-> DefaultExpiresIn]
              : k \in {"ok_no_expiry", "null_token", "bad_expires", "non200",
                       "no_token", "network"}}

\* auth_data["access_token"] of an answer that has the key.
TokensOf(outcome) == IF outcome.kind = "null_token" THEN {"none"} ELSE Tokens

\* What the API may answer to a request: a status, or no answer; a 200 body
\* is a list or something else.
QueryOutcomes == {"200_list", "200_other", "401", "500", "network"}

Ops == {"run_inline_query", "get_explore_schema"}

\* A caller's call: where it stands (pc), the operation, how often it has
\* sent the request (sends), how often a 401 made it authenticate again
\* (reauths), the last answer to the request (last) and how it ended.
IdleCall == [pc |-> "idle", op |-> "none", sends |-> 0, reauths |-> 0,
             last |-> "none", result |-> "none"]

LookerParked ==
    /\ client = "none"
    /\ access_token = "none"
    /\ token_expires_at = << >>
    /\ now = 0
    /\ call = [p \in Callers |-> IdleCall]

\* The condition of _ensure_authenticated.
NeedsAuth ==
    \/ access_token = "none"
    \/ token_expires_at = << >>
    \/ now >= token_expires_at[1]

StatusOf(outcome) ==
    CASE outcome \in {"200_list", "200_other"} -> 200
      [] outcome = "401" -> 401
      [] outcome = "500" -> 500
      [] OTHER -> 0

\* The 401 check that does not look at how often the request was sent.
RetriesOnEvery401(c, outcome) == StatusOf(outcome) = 401

\* "if response.status_code == 401" sits before the one re-send: it is
\* reached with the first response only.
RetriesOn401(c, outcome) == StatusOf(outcome) = 401 /\ c.sends = 1

\* run_inline_query / get_explore_schema up to their first await: the token
\* check of _ensure_authenticated and then either authenticate's POST /login
\* or the request itself.
BeginCall(p, op) ==
    /\ call[p].pc = "idle"
    /\ client' = "open"
    /\ IF NeedsAuth
       THEN call' = [call EXCEPT ![p] = [IdleCall EXCEPT !.pc = "login_wait",
                         !.op = op]]
       ELSE call' = [call EXCEPT ![p] = [IdleCall EXCEPT !.pc = "resp_wait",
                         !.op = op, !.sends = 1]]
    /\ UNCHANGED <<access_token, token_expires_at, now, valVars, agentVars, dateVars, builderVars, otherVars>>

\* authenticate, from the answer to POST /login on: the token and its expiry
\* are stored and the caller goes on to send (or re-send) the request, or
\* LookerAuthError is raised. The token is stored before the expiry is
\* computed; expires_in - 60 raises TypeError where expires_in is no number.
LoginResponse(p, outcome) ==
    /\ call[p].pc = "login_wait"
    /\ IF outcome.kind \in {"ok", "ok_no_expiry", "null_token"}
       THEN \E tok \in TokensOf(outcome) :
              /\ access_token' = tok
              /\ token_expires_at' = <<now + outcome.expires_in - ExpiryBuffer>>
              /\ call' = [call EXCEPT ![p].pc = "resp_wait",
                                      ![p].sends = @ + 1]
       ELSE IF outcome.kind = "bad_expires"
       THEN \E tok \in TokensOf(outcome) :
              /\ access_token' = tok
              /\ call' = [call EXCEPT ![p].pc = "done",
                                      ![p].result = "LookerAuthError"]
              /\ UNCHANGED token_expires_at
       ELSE /\ call' = [call EXCEPT ![p].pc = "done",
                                    ![p].result = "LookerAuthError"]
            /\ UNCHANGED <<access_token, token_expires_at>>
    /\ UNCHANGED <<client, now, valVars, agentVars, dateVars, builderVars, otherVars>>

\* The answer to the request: a 401 to the first send starts authenticate
\* again, any other non-200 status, a failed transport or (run_inline_query)
\* a body that is no list raises LookerAPIError, a 200 returns.
QueryResponse(p, outcome) ==
    /\ call[p].pc = "resp_wait"
    /\ LET c == [call[p] EXCEPT !.last = outcome]
       IN IF RetriesOn401(c, outcome)
          THEN call' = [call EXCEPT ![p] = [c EXCEPT !.pc = "login_wait",
                            !.reauths = @ + 1]]
          ELSE IF outcome = "200_list" \/ (outcome = "200_other" /\ c.op = "get_explore_schema")
          THEN call' = [call EXCEPT ![p] = [c EXCEPT !.pc = "done", !.result = "ok"]]
          ELSE call' = [call EXCEPT ![p] = [c EXCEPT !.pc = "done",
                            !.result = "LookerAPIError"]]
    /\ UNCHANGED <<client, access_token, token_expires_at, now, valVars, agentVars, dateVars, builderVars, otherVars>>

\* The call has returned or raised; the caller may call again.
FinishCall(p) ==
    /\ call[p].pc = "done"
    /\ call' = [call EXCEPT ![p] = IdleCall]
    /\ UNCHANGED <<client, access_token, token_expires_at, now, valVars, agentVars, dateVars, builderVars, otherVars>>

\* Time passes.
Tick ==
    /\ now < MaxNow
    /\ now' = now + ExpiryBuffer
    /\ UNCHANGED <<client, access_token, token_expires_at, call, valVars, agentVars, dateVars, builderVars, otherVars>>

\* aclose, called while no request is in flight: the client is closed and
\* dropped, the token and its expiry are forgotten.
Aclose ==
    /\ client = "open"
    /\ \A p \in Callers : call[p].pc \in {"idle", "done"}
    /\ client' = "none"
    /\ access_token' = "none"
    /\ token_expires_at' = << >>
    /\ UNCHANGED <<now, call, valVars, agentVars, dateVars, builderVars, otherVars>>

InitLooker == LookerParked /\ ValidatorParked /\ AgentParked /\ DatesParked /\ BuilderParked /\ OthersParked

NextLooker ==
    \/ \E p \in Callers, op \in Ops : BeginCall(p, op)
    \/ \E p \in Callers, outcome \in LoginOutcomes : LoginResponse(p, outcome)
    \/ \E p \in Callers, outcome \in QueryOutcomes : QueryResponse(p, outcome)
    \/ \E p \in Callers : FinishCall(p)
    \/ Tick
    \/ Aclose

SpecLooker == InitLooker /\ [][NextLooker]_vars

\* ------------------------------------------------ SpecValidator inputs
TimeIntents ==
    { [preset |-> "yesterday", field |-> DateField],
      [preset |-> "last_n_days", n |-> IntN(MaxN), field |-> DateField],
      [preset |-> "last_n_days", n |-> StrN(MaxN)],
      [preset |-> "prev_month", field |-> "orders.created_date"],
      [preset |-> "absolute", start |-> <<2025, 9, 10>>, end |-> <<2025, 9, 1>>],
      [preset |-> "absolute", start |-> <<2025, 2, 30>>, end |-> <<2025, 3, 1>>],
      [preset |-> "last_decade"],
      EmptyObj,
      NonDictIntent }

FilterMaps ==
    { [k \in {"consumer_sessions.portal"} |-> "web"],
      [k \in {"consumer_sessions.portal", DateField} |->
          IF k = DateField THEN "2020-01-01 to 2020-01-31" ELSE "web"] }

\* The drafts: every combination of the optional keys of a QueryDraft that
\* forward reads, over a fixed model and field list.
DraftCore == [model |-> "bg", fields |-> <<"consumer_sessions.sessions">>, limit |-> 100]

WithOpt(d, key, choices) == {d} \cup {SetKey(d, key, c) : c \in choices}

\* The pivots a draft may carry: its one field, two fields, a field that is
\* not among its fields.
PivotLists ==
    { <<"consumer_sessions.sessions">>,
      <<"consumer_sessions.sessions", "consumer_sessions.country">>,
      <<"consumer_sessions.country">> }

Drafts ==
    UNION { UNION { UNION { UNION { WithOpt(d4, "pivots", PivotLists)
                                    : d4 \in WithOpt(d3, "time_intent", TimeIntents) }
                            : d3 \in WithOpt(d2, "filters", FilterMaps) }
                    : d2 \in WithOpt(d1, "view", {"sessions_view"}) }
            : d1 \in WithOpt(DraftCore, "explore", {"consumer_sessions"}) }

Clarification == [clarification_request |-> "Do you mean 2025-04-03 or 2025-03-04?"]

QueryTexts ==
    {JsonText(d, c) : d \in Drafts \cup {Clarification}, c \in BOOLEAN} \cup {Garbage}

Todays == {NoneDate, <<2025, 9, 29>>, <<2025, 1, 1>>, <<2024, 3, 1>>, <<2025, 2, 30>>}

Verdicts == {"same", "clarify"}

InitValidator ==
    /\ OthersParked
    /\ LookerParked
    /\ AgentParked
    /\ DatesParked
    /\ BuilderParked
    /\ vQuery \in QueryTexts
    /\ vToday \in Todays
    /\ vOnce = NoText
    /\ vTwice = NoText
    /\ vStage = "input"

\* validator.forward(looker_query, schema_json, today_iso)
ValidatorForward ==
    /\ vStage = "input"
    /\ \E verdict \in Verdicts : vOnce' = forward(vQuery, verdict, vToday)
    /\ vStage' = "once"
    /\ UNCHANGED <<vQuery, vToday, vTwice, lookerVars, agentVars, dateVars, builderVars, otherVars>>

\* forward again, on its own output; the capability finds nothing to change.
ValidatorReapply ==
    /\ vStage = "once"
    /\ vTwice' = forward(vOnce, "same", vToday)
    /\ vStage' = "twice"
    /\ UNCHANGED <<vQuery, vToday, vOnce, lookerVars, agentVars, dateVars, builderVars, otherVars>>

NextValidator == ValidatorForward \/ ValidatorReapply

SpecValidator == InitValidator /\ [][NextValidator]_vars

\* ------------------------------------------ ConversationalAgent, a turn
\* ConversationalAgent.__init__: no schema, no builder, an empty memory.
Init ==
    /\ OthersParked
    /\ LookerParked
    /\ ValidatorParked
    /\ DatesParked
    /\ BuilderParked
    /\ pc = "new"
    /\ user_query = << >>
    /\ intent = "none"
    /\ schema = NoSchema
    /\ query_builder = FALSE
    /\ query_config = NoQuery
    /\ looker_data = << >>
    /\ response = NoResponse
    /\ conversation_history = << >>
    /\ user_profile = NewProfile
    /\ turns = 0
    /\ trace = NewTrace
    /\ shown = {}

\* initialize_looker_schema: the schema is kept when the file loads, the
\* builder when LookerQueryBuilder(self.schema) does not raise.
InitializeLookerSchema(file) ==
    /\ pc = "new"
    /\ schema' = load_schema(file)
    /\ query_builder' = (file.loads /\ file.entries_ok)
    /\ pc' = "idle"
    /\ UNCHANGED <<user_query, intent, query_config, looker_data, response,
                   conversation_history, user_profile, turns, trace, shown,
                   valVars, lookerVars, dateVars, builderVars, otherVars>>

\* The surface calls process_query(user_query).
ProcessQuery(text) ==
    /\ pc \in {"idle", "returned"}
    /\ turns < MaxTurns
    /\ user_query' = text
    /\ intent' = "none"
    /\ query_config' = NoQuery
    /\ looker_data' = << >>
    /\ response' = NoResponse
    /\ trace' = [NewTrace EXCEPT !.profileBefore = user_profile]
    /\ shown' = {}
    /\ pc' = "detect"
    /\ UNCHANGED <<schema, query_builder, conversation_history, user_profile, turns,
                   valVars, lookerVars, dateVars, builderVars, otherVars>>

\* Step 1 of process_query: _detect_intent(user_query)
DetectIntent(outcome) ==
    /\ pc = "detect"
    /\ intent' = detect_intent(outcome)
    /\ trace' = [trace EXCEPT !.triageRaised = (outcome = "raise")]
    /\ pc' = "route"
    /\ UNCHANGED <<user_query, schema, query_builder, query_config, looker_data, response,
                   conversation_history, user_profile, turns, shown, valVars, lookerVars, dateVars, builderVars, otherVars>>

\* _handle_data_query, steps 1 and 2 and the clarification check: the
\* curator, the query_config, and what becomes of it.
HandleDataQuery(curated) ==
    /\ pc = "route"
    /\ intent = "GATHER_DATA_FROM_LOOKER"
    /\ IF curated.kind # "ok"
       THEN /\ response' = DataQueryError(ExceptionText(curated.kind))
            /\ pc' = "remember"
            /\ UNCHANGED query_config
       ELSE LET built == BuildQuery(schema, query_builder, curated, user_query)
            IN /\ query_config' = built
               /\ IF NeedsClarification(built)
                  THEN response' = ClarificationResponse(built) /\ pc' = "remember"
                  ELSE response' = response /\ pc' = "execute"
    /\ UNCHANGED <<user_query, intent, schema, query_builder, looker_data,
                   conversation_history, user_profile, turns, trace, shown,
                   valVars, lookerVars, dateVars, builderVars, otherVars>>

\* Step 3 of _handle_data_query: looker_service.run_inline_query(query_config)
RunInlineQuery(outcome) ==
    /\ pc = "execute"
    /\ IF outcome \in {"rows", "empty"}
       THEN /\ looker_data' = LookerRows(outcome)
            /\ trace' = [trace EXCEPT !.runCalls = @ + 1, !.sent = query_config]
            /\ pc' = "synthesize"
            /\ UNCHANGED response
       ELSE /\ trace' = [trace EXCEPT !.runCalls = @ + 1, !.sent = query_config,
                                      !.execError = ExceptionText(outcome)]
            /\ response' = DataQueryError(ExceptionText(outcome))
            /\ pc' = "remember"
            /\ UNCHANGED looker_data
    /\ UNCHANGED <<user_query, intent, schema, query_builder, query_config,
                   conversation_history, user_profile, turns, shown, valVars, lookerVars, dateVars, builderVars, otherVars>>

\* Step 4 of _handle_data_query: _synthesize_response, and the response
SynthesizeResponse(ok) ==
    /\ pc = "synthesize"
    /\ trace' = [trace EXCEPT !.synthCalls = @ + 1]
    /\ response' = IF ok THEN DataQuerySuccess(SynthesizedText, looker_data, query_config)
                   ELSE DataQueryError(ExceptionText("synthesizer"))
    /\ pc' = "remember"
    /\ UNCHANGED <<user_query, intent, schema, query_builder, query_config, looker_data,
                   conversation_history, user_profile, turns, shown, valVars, lookerVars, dateVars, builderVars, otherVars>>

\* _handle_executive_summary; a synthesizer that raises is caught by
\* process_query only.
HandleExecutiveSummary(ok) ==
    /\ pc = "route"
    /\ intent = "GET_EXECUTIVE_SUMMARY"
    /\ IF get_recent_conversation_data(conversation_history) = << >>
       THEN response' = NoRecentData /\ pc' = "remember" /\ UNCHANGED trace
       ELSE /\ trace' = [trace EXCEPT !.synthCalls = @ + 1]
            /\ IF ok
               THEN response' = ExecutiveSummary(SynthesizedText) /\ pc' = "remember"
               ELSE response' = ProcessQueryError(ExceptionText("synthesizer"))
                      /\ pc' = "return"
    /\ UNCHANGED <<user_query, intent, schema, query_builder, query_config, looker_data,
                   conversation_history, user_profile, turns, shown, valVars, lookerVars, dateVars, builderVars, otherVars>>

\* _handle_data_source_info: with a schema and no builder,
\* self.query_builder.get_available_dimensions() raises, and process_query
\* catches it.
HandleDataSourceInfo ==
    /\ pc = "route"
    /\ intent = "DATA_SOURCE_INFO"
    /\ IF schema.loaded /\ ~query_builder
       THEN response' = ProcessQueryError(ExceptionText("no_builder")) /\ pc' = "return"
       ELSE response' = handle_data_source_info(schema) /\ pc' = "remember"
    /\ UNCHANGED <<user_query, intent, schema, query_builder, query_config, looker_data,
                   conversation_history, user_profile, turns, trace, shown,
                   valVars, lookerVars, dateVars, builderVars, otherVars>>

\* _handle_conversation_management: memory.clear_history() when asked to
HandleConversationManagement ==
    /\ pc = "route"
    /\ intent = "MANAGE_CONVERSATION"
    /\ response' = handle_conversation_management(user_query, conversation_history)
    /\ conversation_history' = IF AsksToClear(user_query) THEN << >>
                               ELSE conversation_history
    /\ pc' = "remember"
    /\ UNCHANGED <<user_query, intent, schema, query_builder, query_config, looker_data,
                   user_profile, turns, trace, shown, valVars, lookerVars, dateVars, builderVars, otherVars>>

\* _handle_friendly_conversation
HandleFriendlyConversation ==
    /\ pc = "route"
    /\ intent = "FRIENDLY_CONVERSATION"
    /\ response' = handle_friendly_conversation(user_query)
    /\ pc' = "remember"
    /\ UNCHANGED <<user_query, intent, schema, query_builder, query_config, looker_data,
                   conversation_history, user_profile, turns, trace, shown,
                   valVars, lookerVars, dateVars, builderVars, otherVars>>

\* _handle_drill_down, _handle_capabilities_query and _handle_other_query
HandleFixedAnswer ==
    /\ pc = "route"
    /\ intent \in {"DRILL_DOWN_ANALYSIS", "AGENT_CAPABILITIES", "OTHER"}
    /\ response' = CASE intent = "DRILL_DOWN_ANALYSIS" -> handle_drill_down
                     [] intent = "AGENT_CAPABILITIES" -> handle_capabilities_query
                     [] OTHER -> handle_other_query
    /\ pc' = "remember"
    /\ UNCHANGED <<user_query, intent, schema, query_builder, query_config, looker_data,
                   conversation_history, user_profile, turns, trace, shown,
                   valVars, lookerVars, dateVars, builderVars, otherVars>>

\* Steps 3 and 4 of process_query: memory.add_turn and _extract_insights
Remember(insight) ==
    /\ pc = "remember"
    /\ conversation_history' =
           add_turn(conversation_history, user_query, response.message, intent)
    /\ trace' = [trace EXCEPT !.appended = @ + 1, !.insightCalls = @ + 1]
    /\ user_profile' = extract_insights(user_profile, user_query, insight)
    /\ pc' = "return"
    /\ UNCHANGED <<user_query, intent, schema, query_builder, query_config, looker_data,
                   response, turns, shown, valVars, lookerVars, dateVars, builderVars, otherVars>>

\* process_query returns and the surface shows the response.
ReturnResponse(surface) ==
    /\ pc = "return"
    /\ shown' = Shows(surface, response)
    /\ turns' = turns + 1
    /\ pc' = "returned"
    /\ UNCHANGED <<user_query, intent, schema, query_builder, query_config, looker_data,
                   response, conversation_history, user_profile, trace,
                   valVars, lookerVars, dateVars, builderVars, otherVars>>

Next ==
    \/ \E file \in SchemaFiles : InitializeLookerSchema(file)
    \/ \E text \in UserQueries : ProcessQuery(text)
    \/ \E outcome \in TriageOutcomes : DetectIntent(outcome)
    \/ \E curated \in CuratorOutcomes : HandleDataQuery(curated)
    \/ \E outcome \in RunOutcomes : RunInlineQuery(outcome)
    \/ \E ok \in BOOLEAN : SynthesizeResponse(ok)
    \/ \E ok \in BOOLEAN : HandleExecutiveSummary(ok)
    \/ HandleDataSourceInfo
    \/ HandleConversationManagement
    \/ HandleFriendlyConversation
    \/ HandleFixedAnswer
    \/ \E insight \in InsightOutcomes : Remember(insight)
    \/ \E surface \in Surfaces : ReturnResponse(surface)

Spec == Init /\ [][Next]_vars


\* ------------------------------------------------ SpecDates: to_absolute_range
\* The preset tags to_absolute_range has a branch for.
Presets ==
    {"yesterday", "today", "last_n_days", "mtd", "qtd", "ytd",
     "prev_month", "prev_quarter", "prev_year", "absolute"}

\* The values n may have: integers around the limit 1, a string, booleans,
\* a float.
NValues ==
    {IntN(k) : k \in -1..MaxN}
        \cup {StrN(MaxN), [t |-> "bool", v |-> 1], [t |-> "bool", v |-> 0],
              [t |-> "float", v |-> MaxN]}

\* The start and end of an absolute intent: dates, a day and a month that do
\* not exist.
AbsoluteDates ==
    {<<2025, 9, 10>>, <<2025, 9, 1>>, <<2024, 2, 29>>, <<2025, 2, 30>>, <<2025, 13, 1>>}

DateIntents ==
    {[preset |-> p] : p \in Presets \cup {"last_decade"}}
        \cup {[preset |-> "last_n_days", n |-> n] : n \in NValues}
        \cup {[preset |-> "absolute", start |-> a, end |-> b] :
                 a \in AbsoluteDates, b \in AbsoluteDates}
        \cup {[preset |-> "absolute", start |-> <<2025, 9, 1>>],
              [preset |-> "absolute", end |-> <<2025, 9, 1>>],
              [n |-> IntN(MaxN)],
              EmptyObj,
              NonDictIntent}

\* today_iso: dates inside a month, at the start of a month, quarter and
\* year, in a leap year, at both ends of the calendar, a day that does not
\* exist, None.
DateTodays ==
    {<<2025, 9, 29>>, <<2025, 9, 5>>, <<2025, 1, 1>>, <<2025, 1, 15>>, <<2025, 2, 15>>,
     <<2024, 3, 1>>, <<2025, 3, 31>>, <<2024, 12, 31>>, <<2024, 2, 29>>, <<2025, 5, 5>>,
     <<1, 1, 1>>, <<1, 1, 3>>, <<1, 3, 15>>, <<1, 6, 15>>, <<2, 1, 1>>, <<9999, 12, 31>>,
     <<2025, 2, 30>>, NoneDate}

InitDates ==
    /\ OthersParked
    /\ dIntent \in DateIntents
    /\ dToday \in DateTodays
    /\ dRange = << >>
    /\ dResult = NoneStr
    /\ dStage = "input"
    /\ LookerParked
    /\ ValidatorParked
    /\ AgentParked
    /\ BuilderParked

\* result = to_absolute_range(time_intent, today_iso)
Normalize ==
    /\ dStage = "input"
    /\ dRange' = RangeDates(dIntent, dToday)
    /\ dResult' = to_absolute_range(dIntent, dToday)
    /\ dStage' = "done"
    /\ UNCHANGED <<dIntent, dToday, valVars, lookerVars, agentVars, builderVars, otherVars>>

NextDates == Normalize

SpecDates == InitDates /\ [][NextDates]_vars

\* ------------------------------------- SpecBuilder: the two query builders
\* LookerQueryBuilder.__init__: self.dimensions and self.measures are dicts
\* keyed by field name, in the order of the schema's lists.
BuilderSchemas ==
    { [model |-> "sales", explore |-> "orders",
       filters |-> <<"country">>, measures |-> <<"revenue", "order_count">>],
      [model |-> "sales", explore |-> "orders",
       filters |-> <<"date", "country", "product_category", "customer_segment">>,
       measures |-> <<"order_count", "revenue", "customer_count">>],
      [model |-> "sales", explore |-> "orders",
       filters |-> <<"date", "customer_segment">>, measures |-> <<"customer_count">>],
      [model |-> "bg", explore |-> "consumer_sessions",
       filters |-> <<"consumer_sessions.country">>,
       measures |-> <<"consumer_sessions.sessions">>] }

\* The schema as the builder's operations read it.
SchemaOf(s) ==
    [loaded |-> TRUE, model |-> s.model, explore |-> s.explore,
     dims |-> SeqToSet(s.filters), meas |-> SeqToSet(s.measures)]

\* user_query of build_query_from_intent
BuilderTexts ==
    { <<W("top"), N(5), W("countries"), W("by"), W("revenue")>>,
      <<W("hello")>>,
      <<W("what"), W("is"), W("this")>>,
      <<W("customers"), W("type")>>,
      <<W("sales"), W("trending"), W("over"), W("time")>>,
      <<W("Show"), N(3), W("orders"), W("first"), N(4), W("top"), N(2)>>,
      <<W("first"), N(4), W("results")>>,
      <<W("Show"), N(3), W("sales")>>,
      <<N(20), W("results")>>,
      <<W("top"), N(2), W("in"), N(20), W("results")>>,
      <<W("Revenue"), W("by"), W("country"), W("last"), N(7), W("days")>>,
      <<W("sales"), W("in"), W("june")>>,
      <<W("sales"), W("past"), N(3), W("months"), W("in"), N(2024)>>,
      <<W("orders"), W("in"), N(2024), W("last"), N(7), W("days")>> }

\* intent_params of build_query_from_intent
BuilderParams ==
    { EmptyObj,
      [dimension |-> "date"],
      [dimension |-> "city"],
      [measure |-> "order_count"],
      [limit |-> 50],
      [sort |-> "revenue asc"],
      [filters |-> [country |-> "US"]] }

\* query of validate_query
BuilderQueries ==
    { [dimensions |-> <<"country">>, measures |-> <<"revenue">>],
      [dimensions |-> <<"city", "date">>, measures |-> <<"revenue">>],
      [dimensions |-> <<"city">>, measures |-> <<"profit">>],
      [measures |-> <<"revenue">>, limit |-> 5],
      EmptyObj }

\* query_json of _parse_and_validate_query: what the query-structure step
\* wrote
BuilderJsons ==
    { Garbage,
      JsonText([fields |-> <<"consumer_sessions.country">>], TRUE),
      JsonText([measures |-> <<"consumer_sessions.sessions">>, view |-> "sessions_view",
                limit |-> 5], TRUE),
      JsonText(EmptyObj, TRUE),
      JsonText([clarification_request |-> "Which field do you mean?"], TRUE),
      JsonText(ClarificationNeeded, TRUE) }

InitBuilder ==
    /\ OthersParked
    /\ bSchema \in BuilderSchemas
    /\ bText = << >>
    /\ bParams = EmptyObj
    /\ bQuery = EmptyObj
    /\ bJson = NoText
    /\ bOp = "input"
    /\ bOut = EmptyObj
    /\ LookerParked
    /\ ValidatorParked
    /\ AgentParked
    /\ DatesParked

\* query_builder.build_query_from_intent(user_query, intent_params)
BuildFromIntent ==
    /\ bOp = "input"
    /\ \E text \in BuilderTexts, params \in BuilderParams :
          /\ bText' = text
          /\ bParams' = params
          /\ bOut' = build_query_from_intent(SchemaOf(bSchema), text, params)
    /\ bOp' = "build_query_from_intent"
    /\ UNCHANGED <<bSchema, bQuery, bJson, valVars, lookerVars, agentVars, dateVars, otherVars>>

\* query_builder.validate_query(query)
ValidateQuery ==
    /\ bOp = "input"
    /\ \E query \in BuilderQueries :
          /\ bQuery' = query
          /\ bOut' = validate_query(bSchema, query)
    /\ bOp' = "validate_query"
    /\ UNCHANGED <<bSchema, bText, bParams, bJson, valVars, lookerVars, agentVars, dateVars, otherVars>>

\* self._parse_and_validate_query(query_result.looker_query)
ParseAndValidate ==
    /\ bOp = "input"
    /\ \E query_json \in BuilderJsons :
          /\ bJson' = query_json
          /\ bOut' = parse_and_validate_query(bSchema, query_json)
    /\ bOp' = "parse_and_validate_query"
    /\ UNCHANGED <<bSchema, bText, bParams, bQuery, valVars, lookerVars, agentVars, dateVars, otherVars>>

NextBuilder ==
    \/ BuildFromIntent
    \/ ValidateQuery
    \/ ParseAndValidate

SpecBuilder == InitBuilder /\ [][NextBuilder]_vars

\* ------------------------------------------- SpecMemory: ConversationMemory
\* Operations on one memory in one behaviour.
MaxOps == 3

\* The self.user_profile that __init__ and reset_session build at time t.
InitialProfile(t) ==
    [preferences |-> EmptyObj, data_interests |-> << >>, query_patterns |-> << >>,
     created_at |-> t, updated_at |-> t]

\* The turn add_turn appends at time t.
Turn(t, query, agent_response, metadata) ==
    [timestamp |-> t, user_query |-> query, agent_response |-> agent_response,
     metadata |-> metadata]

\* add_turn: self.conversation_history afterwards
mem_add_turn(history, t, query, agent_response, metadata) ==
    Append(history, Turn(t, query, agent_response, metadata))

\* get_recent_history: self.conversation_history[-num_turns:] for a
\* num_turns >= 0; the slice [-0:] is the whole list.
get_recent_history(history, num_turns) ==
    IF history = << >> THEN << >>
    ELSE IF num_turns = 0 \/ num_turns >= Len(history) THEN history
    ELSE SubSeq(history, Len(history) - num_turns + 1, Len(history))

\* add_data_interest / add_query_pattern: self.user_profile afterwards
add_to_profile_list(profile, key, value, t) ==
    LET present == IF key \in DOMAIN profile THEN profile ELSE SetKey(profile, key, << >>)
    IN IF value \in SeqToSet(present[key]) THEN present
       ELSE SetKey(SetKey(present, key, Append(present[key], value)), "updated_at", t)

add_data_interest(profile, interest, t) ==
    add_to_profile_list(profile, "data_interests", interest, t)

add_query_pattern(profile, pattern, t) ==
    add_to_profile_list(profile, "query_patterns", pattern, t)

\* update_user_profile: self.user_profile.update(profile_updates), then
\* updated_at
update_user_profile(profile, profile_updates, t) ==
    LET merged == [k \in DOMAIN profile \cup DOMAIN profile_updates |->
                      IF k \in DOMAIN profile_updates THEN profile_updates[k]
                      ELSE profile[k]]
    IN SetKey(merged, "updated_at", t)

\* A reset_session that clears the history and keeps the profile.
reset_session_history_only(memory, t) ==
    [conversation_history |-> << >>, user_profile |-> memory.user_profile]

\* clear_history: the memory afterwards
clear_history(memory) ==
    [conversation_history |-> << >>, user_profile |-> memory.user_profile]

\* reset_session: the memory afterwards
reset_session(memory, t) ==
    [conversation_history |-> << >>, user_profile |-> InitialProfile(t)]

\* The arguments the operations are called with.
MemQueries == {"show me revenue", "what about by country?"}

MemInterests == {"revenue_analysis", "customer_analytics"}

MemPatterns == {"trend_queries"}

\* profile_updates: a new key, preferences, and the two collections given
\* whole (as the insight extractor's JSON may give them).
ProfileUpdates ==
    { [role |-> "analyst"],
      [preferences |-> [chart_type |-> "bar"]],
      [data_interests |-> <<"revenue_analysis", "revenue_analysis">>],
      [query_patterns |-> <<"trend_queries">>] }

\* What mLast keeps of an operation.
Did(op, arg, result) ==
    [op |-> op, arg |-> arg, result |-> result,
     history |-> mHistory, profile |-> mProfile]

\* ConversationMemory(): an empty history and the initial profile.
InitMemory ==
    /\ mHistory = << >>
    /\ mProfile = InitialProfile(0)
    /\ mNow = 0
    /\ mLast = EmptyObj
    /\ LookerParked
    /\ ValidatorParked
    /\ AgentParked
    /\ DatesParked
    /\ BuilderParked
    /\ RecipesParked
    /\ SlackParked
    /\ LoaderParked

notMemVars == <<valVars, lookerVars, agentVars, dateVars, builderVars,
                recipeVars, slackVars, loaderVars>>

AddTurn(query) ==
    /\ mNow < MaxOps
    /\ mNow' = mNow + 1
    /\ mHistory' = mem_add_turn(mHistory, mNow + 1, query, "response", EmptyObj)
    /\ mLast' = Did("add_turn", query, "None")
    /\ UNCHANGED <<mProfile, notMemVars>>

GetRecentHistory(num_turns) ==
    /\ mNow < MaxOps
    /\ mNow' = mNow + 1
    /\ mLast' = Did("get_recent_history", num_turns, get_recent_history(mHistory, num_turns))
    /\ UNCHANGED <<mHistory, mProfile, notMemVars>>

AddDataInterest(interest) ==
    /\ mNow < MaxOps
    /\ mNow' = mNow + 1
    /\ mProfile' = add_data_interest(mProfile, interest, mNow + 1)
    /\ mLast' = Did("add_data_interest", interest, "None")
    /\ UNCHANGED <<mHistory, notMemVars>>

AddQueryPattern(pattern) ==
    /\ mNow < MaxOps
    /\ mNow' = mNow + 1
    /\ mProfile' = add_query_pattern(mProfile, pattern, mNow + 1)
    /\ mLast' = Did("add_query_pattern", pattern, "None")
    /\ UNCHANGED <<mHistory, notMemVars>>

UpdateUserProfile(profile_updates) ==
    /\ mNow < MaxOps
    /\ mNow' = mNow + 1
    /\ mProfile' = update_user_profile(mProfile, profile_updates, mNow + 1)
    /\ mLast' = Did("update_user_profile", profile_updates, "None")
    /\ UNCHANGED <<mHistory, notMemVars>>

ClearHistory ==
    /\ mNow < MaxOps
    /\ mNow' = mNow + 1
    /\ LET after == clear_history([conversation_history |-> mHistory,
                                   user_profile |-> mProfile])
       IN /\ mHistory' = after.conversation_history
          /\ mProfile' = after.user_profile
    /\ mLast' = Did("clear_history", "None", "None")
    /\ UNCHANGED notMemVars

ResetSession ==
    /\ mNow < MaxOps
    /\ mNow' = mNow + 1
    /\ LET after == reset_session([conversation_history |-> mHistory,
                                   user_profile |-> mProfile], mNow + 1)
       IN /\ mHistory' = after.conversation_history
          /\ mProfile' = after.user_profile
    /\ mLast' = Did("reset_session", "None", "None")
    /\ UNCHANGED notMemVars

NextMemory ==
    \/ \E query \in MemQueries : AddTurn(query)
    \/ \E num_turns \in 0..MaxOps : GetRecentHistory(num_turns)
    \/ \E interest \in MemInterests : AddDataInterest(interest)
    \/ \E pattern \in MemPatterns : AddQueryPattern(pattern)
    \/ \E profile_updates \in ProfileUpdates : UpdateUserProfile(profile_updates)
    \/ ClearHistory
    \/ ResetSession

SpecMemory == InitMemory /\ [][NextMemory]_vars

\* ------------------------------------------ the recipe catalog of the agent
\* Calls of _build_query_from_recipe on one agent.
MaxCalls == 3

\* One recipe of the catalog.
Recipe(name, dimensions) ==
    [name |-> name,
     query_template |-> [dimensions |-> dimensions, measures |-> <<"revenue">>,
                         limit |-> 10]]

\* self.recipes as _load_recipes returns it: the catalog of the tests, and
\* catalogs whose parameter_mappings name a dimension a template lacks.
RecipeCatalogs ==
    { [recipes |-> << Recipe("test_recipe", <<"country">>) >>,
       parameter_mappings |-> [dimensions |-> [k \in {"country"} |-> "country"]]],
      [recipes |-> << Recipe("test_recipe", <<"country">>) >>,
       parameter_mappings |->
           [dimensions |-> [k \in {"country", "region"} |-> k]]],
      [recipes |-> << Recipe("test_recipe", <<"country">>),
                      Recipe("sales_by_region", <<"region">>) >>,
       parameter_mappings |->
           [dimensions |-> [k \in {"country", "region"} |-> k]]] }

\* recipe_name of a call.
RecipeNames == {"test_recipe", "sales_by_region", "weekly_report"}

\* parameters of a call, each a dict as the sequence of its items.
RecipeParameters ==
    { << >>,
      << <<"limit", 5>> >>,
      << <<"limit", 20>> >>,
      << <<"region", "EU">> >>,
      << <<"country", "US">> >>,
      << <<"limit", 5>>, <<"region", "EU">> >>,
      << <<"category", "boats">> >> }

\* The loop over parameters.items(): query is the shallow copy, whose
\* dimensions list is the template's own list, so an append shows in both.
RECURSIVE apply_parameters(_, _, _)
apply_parameters(query, mappings, items) ==
    IF items = << >> THEN query
    ELSE LET param == Head(items)[1]
             value == Head(items)[2]
             next == IF param = "limit"
                     THEN [query EXCEPT !.limit = value]
                     ELSE IF param \in DOMAIN mappings
                             /\ mappings[param] \notin SeqToSet(query.dimensions)
                     THEN [query EXCEPT !.dimensions = Append(@, mappings[param])]
                     ELSE query
         IN apply_parameters(next, mappings, Tail(items))

\* _build_query_from_recipe on the catalog it is given: the query returned
\* and the catalog after the call.
build_query_from_catalog(catalog, recipe_name, parameters) ==
    LET found == {i \in DOMAIN catalog.recipes : catalog.recipes[i].name = recipe_name}
    IN IF found = {} THEN [query |-> get_default_query, catalog |-> catalog]
       ELSE LET i == Min(found)
                template == catalog.recipes[i].query_template
                query == apply_parameters(template, catalog.parameter_mappings.dimensions,
                                          parameters)
            IN [query |-> query,
                catalog |-> [catalog EXCEPT
                    !.recipes[i].query_template.dimensions = query.dimensions]]

notRecipeVars == <<valVars, lookerVars, agentVars, dateVars, builderVars, memVars,
                   slackVars, loaderVars>>

InitRecipes ==
    /\ rCatalog \in RecipeCatalogs
    /\ rLast = [recipe_name |-> "None", parameters |-> << >>, query |-> EmptyObj,
                loaded |-> rCatalog]
    /\ rCalls = 0
    /\ LookerParked /\ ValidatorParked /\ AgentParked /\ DatesParked /\ BuilderParked
    /\ MemoryParked /\ SlackParked /\ LoaderParked

\* One call of _build_query_from_recipe.
BuildFromRecipe(recipe_name, parameters) ==
    /\ rCalls < MaxCalls
    /\ rCalls' = rCalls + 1
    /\ LET built == build_query_from_catalog(rCatalog, recipe_name, parameters)
       IN /\ rCatalog' = built.catalog
          /\ rLast' = [recipe_name |-> recipe_name, parameters |-> parameters,
                       query |-> built.query, loaded |-> rLast.loaded]
    /\ UNCHANGED notRecipeVars

NextRecipes ==
    \E recipe_name \in RecipeNames, parameters \in RecipeParameters :
        BuildFromRecipe(recipe_name, parameters)

SpecRecipes == InitRecipes /\ [][NextRecipes]_vars

\* ------------------------------------------------ SlackApp and SlackService
\* Steps of the clock in one second.
TicksPerSecond == 2

\* SlackApp.stop: wait_for(self.slack_service.stop(), timeout=3.0)
StopTimeout == 3

\* SlackService.stop: wait_for(self.socket_mode_handler.close(), timeout=2.0)
HandlerCloseTimeout == 2

\* SlackService.stop: wait_for(self.app.client.close(), timeout=1.0)
ClientCloseTimeout == 1

notSlackVars == <<valVars, lookerVars, agentVars, dateVars, builderVars, memVars,
                  recipeVars, loaderVars>>

\* SlackApp.__init__ / SlackService.__init__
InitSlack ==
    /\ sRunning = FALSE
    /\ sHandler = "closed"
    /\ sHandlerRef = FALSE
    /\ sAppClient = "closed"
    /\ sAppRef = FALSE
    /\ sLookerClient = "none"
    /\ sPc = "new"
    /\ sElapsed = 0
    /\ sWait = 0
    /\ LookerParked /\ ValidatorParked /\ AgentParked /\ DatesParked /\ BuilderParked
    /\ MemoryParked /\ RecipesParked /\ LoaderParked

\* SlackService.start up to the Slack app: the agent, with its LookerService,
\* and the AsyncApp are made, or making the agent raises and SlackApp.start's
\* finally calls stop.
StartService(agent_made) ==
    /\ sPc = "new"
    /\ IF agent_made
       THEN /\ sAppRef' = TRUE
            /\ sAppClient' = "open"
            /\ sHandlerRef' = TRUE
            /\ sPc' = "connecting"
       ELSE /\ sPc' = "stop_called"
            /\ UNCHANGED <<sAppRef, sAppClient, sHandlerRef>>
    /\ UNCHANGED <<sRunning, sHandler, sLookerClient, sElapsed, sWait, notSlackVars>>

\* await self.socket_mode_handler.start_async(); self._running = True
Connect(connected) ==
    /\ sPc = "connecting"
    /\ IF connected
       THEN /\ sHandler' = "open"
            /\ sRunning' = TRUE
            /\ sPc' = "serving"
       ELSE /\ sPc' = "stop_called"
            /\ UNCHANGED <<sHandler, sRunning>>
    /\ UNCHANGED <<sHandlerRef, sAppClient, sAppRef, sLookerClient, sElapsed, sWait,
                   notSlackVars>>

\* on_message / on_app_mention with a data query: run_inline_query opens the
\* LookerService client (_ensure_client).
ServeDataQuery ==
    /\ sPc = "serving"
    /\ sLookerClient = "none"
    /\ sLookerClient' = "open"
    /\ UNCHANGED <<sRunning, sHandler, sHandlerRef, sAppClient, sAppRef, sPc, sElapsed,
                   sWait, notSlackVars>>

\* The shutdown signal: shutdown_event is set and start's finally calls stop.
ShutdownSignal ==
    /\ sPc = "serving"
    /\ sPc' = "stop_called"
    /\ UNCHANGED <<sRunning, sHandler, sHandlerRef, sAppClient, sAppRef, sLookerClient,
                   sElapsed, sWait, notSlackVars>>

\* SlackApp.stop up to the first await of SlackService.stop.
StopCalled ==
    /\ sPc = "stop_called"
    /\ sElapsed' = 0
    /\ sWait' = 0
    /\ IF ~sRunning
       THEN /\ sPc' = "returned"
            /\ UNCHANGED <<sRunning, sHandler, sAppClient, sAppRef>>
       ELSE IF sHandlerRef
       THEN /\ sPc' = "handler_close"
            /\ sHandler' = "closing"
            /\ UNCHANGED <<sRunning, sAppClient, sAppRef>>
       ELSE IF sAppRef
       THEN /\ sPc' = "client_close"
            /\ sAppClient' = "closing"
            /\ UNCHANGED <<sRunning, sHandler, sAppRef>>
       ELSE /\ sPc' = "returned"
            /\ sRunning' = FALSE
            /\ UNCHANGED <<sHandler, sAppClient, sAppRef>>
    /\ UNCHANGED <<sHandlerRef, sLookerClient, notSlackVars>>

\* The clock moves while a close is awaited and no timeout is due.
SlackTick ==
    /\ sPc \in {"handler_close", "client_close"}
    /\ sElapsed < StopTimeout * TicksPerSecond
    /\ sWait < (IF sPc = "handler_close" THEN HandlerCloseTimeout
                ELSE ClientCloseTimeout) * TicksPerSecond
    /\ sElapsed' = sElapsed + 1
    /\ sWait' = sWait + 1
    /\ UNCHANGED <<sRunning, sHandler, sHandlerRef, sAppClient, sAppRef, sLookerClient,
                   sPc, notSlackVars>>

\* socket_mode_handler.close() returns, or its wait_for times out; either way
\* self.socket_mode_handler = None and stop goes on to the app client.
HandlerCloseEnds(timed_out) ==
    /\ sPc = "handler_close"
    /\ timed_out <=> sWait = HandlerCloseTimeout * TicksPerSecond
    /\ sHandler' = IF timed_out THEN "closing" ELSE "closed"
    /\ sHandlerRef' = FALSE
    /\ sWait' = 0
    /\ IF sAppRef
       THEN /\ sPc' = "client_close"
            /\ sAppClient' = "closing"
            /\ UNCHANGED <<sRunning, sAppRef>>
       ELSE /\ sPc' = "returned"
            /\ sRunning' = FALSE
            /\ UNCHANGED <<sAppClient, sAppRef>>
    /\ UNCHANGED <<sLookerClient, sElapsed, notSlackVars>>

\* app.client.close() returns, or its wait_for times out; then
\* self.app = None; self.agent = None; self._running = False.
ClientCloseEnds(timed_out) ==
    /\ sPc = "client_close"
    /\ timed_out <=> sWait = ClientCloseTimeout * TicksPerSecond
    /\ sAppClient' = IF timed_out THEN "closing" ELSE "closed"
    /\ sAppRef' = FALSE
    /\ sRunning' = FALSE
    /\ sPc' = "returned"
    /\ UNCHANGED <<sHandler, sHandlerRef, sLookerClient, sElapsed, sWait, notSlackVars>>

\* A close raises: except Exception sets _running = False and stop returns.
CloseRaises ==
    /\ sPc \in {"handler_close", "client_close"}
    /\ sRunning' = FALSE
    /\ sPc' = "returned"
    /\ UNCHANGED <<sHandler, sHandlerRef, sAppClient, sAppRef, sLookerClient, sElapsed,
                   sWait, notSlackVars>>

\* The wait_for of SlackApp.stop times out: SlackService.stop is cancelled at
\* its await (CancelledError passes both of its except clauses) and
\* SlackApp.stop returns.
StopTimesOut ==
    /\ sPc \in {"handler_close", "client_close"}
    /\ sElapsed = StopTimeout * TicksPerSecond
    /\ sPc' = "returned"
    /\ UNCHANGED <<sRunning, sHandler, sHandlerRef, sAppClient, sAppRef, sLookerClient,
                   sElapsed, sWait, notSlackVars>>

NextSlack ==
    \/ \E agent_made \in BOOLEAN : StartService(agent_made)
    \/ \E connected \in BOOLEAN : Connect(connected)
    \/ ServeDataQuery
    \/ ShutdownSignal
    \/ StopCalled
    \/ SlackTick
    \/ \E timed_out \in BOOLEAN : HandlerCloseEnds(timed_out)
    \/ \E timed_out \in BOOLEAN : ClientCloseEnds(timed_out)
    \/ CloseRaises
    \/ StopTimesOut

SpecSlack == InitSlack /\ [][NextSlack]_vars

\* ------------------------------------------------------ ExploreSchemaLoader
\* Calls of load_schema on one loader.
MaxLoads == 3

\* self._cached_schema is None
NoCache == [type |-> "None"]

\* A JSON object, a JSON array and JSON null as json.load returns them.
JsonObject(obj) == [type |-> "dict", obj |-> obj]

JsonArray(items) == [type |-> "list", items |-> items]

JsonNull == [type |-> "NoneType"]

\* An explore schema file's object with the keys given.
SchemaObject(keys, model) ==
    JsonObject([k \in keys |-> IF k = "model" THEN model ELSE k])

\* What open(self.schema_path) finds: no file, a text that is no JSON, or
\* the text of a JSON value.
ExploreSchemaFiles ==
    { [kind |-> "missing"],
      [kind |-> "invalid_json"],
      [kind |-> "json", value |-> JsonNull],
      [kind |-> "json", value |-> JsonArray(<<"explore", "model", "filters">>)],
      [kind |-> "json", value |-> JsonArray(<<"explore">>)],
      [kind |-> "json", value |-> SchemaObject({}, "")],
      [kind |-> "json", value |-> SchemaObject({"explore", "model"}, "boats")],
      [kind |-> "json", value |-> SchemaObject({"explore", "filters", "measures"}, "")],
      [kind |-> "json", value |-> SchemaObject({"explore", "model", "filters"}, "boats")],
      [kind |-> "json",
       value |-> SchemaObject({"explore", "model", "filters", "measures"}, "yachts")] }

\* field in schema, for what json.load returned; "TypeError" where Python
\* raises it.
FieldIn(field, value) ==
    IF value.type = "dict" THEN IF field \in DOMAIN value.obj THEN "True" ELSE "False"
    ELSE IF value.type = "list"
    THEN IF field \in SeqToSet(value.items) THEN "True" ELSE "False"
    ELSE "TypeError"

\* required_fields
required_fields == <<"explore", "model", "filters">>

\* The validation loop of load_schema: "ok", or the exception it raises.
RECURSIVE ValidateRequired(_, _)
ValidateRequired(fields, value) ==
    IF fields = << >> THEN "ok"
    ELSE LET has == FieldIn(Head(fields), value)
         IN IF has = "TypeError" THEN "TypeError"
            ELSE IF has = "False" THEN "ValueError"
            ELSE ValidateRequired(Tail(fields), value)

\* The result of one call of load_schema.
Loaded(outcome, value, error, cache, read) ==
    [outcome |-> outcome, value |-> value, error |-> error, cache |-> cache,
     read |-> read]

\* load_schema, on the cache and the file it finds: what it returns or
\* raises, the cache it leaves, and whether it opened the file. The schema
\* is cached once the validation loop has passed; schema.get(...) for the
\* log record comes after and raises where the schema has no get.
ExploreSchemaLoader_load_schema(cache, file) ==
    IF cache # NoCache THEN Loaded("returned", cache, "None", cache, FALSE)
    ELSE IF file.kind = "missing"
    THEN Loaded("raised", NoCache, "FileNotFoundError", cache, TRUE)
    ELSE IF file.kind = "invalid_json"
    THEN Loaded("raised", NoCache, "JSONDecodeError", cache, TRUE)
    ELSE LET valid == ValidateRequired(required_fields, file.value)
         IN IF valid # "ok" THEN Loaded("raised", NoCache, valid, cache, TRUE)
            ELSE IF file.value.type # "dict"
            THEN Loaded("raised", NoCache, "AttributeError", file.value, TRUE)
            ELSE Loaded("returned", file.value, "None", file.value, TRUE)

notLoaderVars == <<valVars, lookerVars, agentVars, dateVars, builderVars, memVars,
                   recipeVars, slackVars>>

\* ExploreSchemaLoader.__init__, with the file as it is then.
InitLoader ==
    /\ lFile \in ExploreSchemaFiles
    /\ lCache = NoCache
    /\ lReads = 0
    /\ lLast = [calls |-> 0, outcome |-> "None", value |-> NoCache, error |-> "None"]
    /\ LookerParked /\ ValidatorParked /\ AgentParked /\ DatesParked /\ BuilderParked
    /\ MemoryParked /\ RecipesParked /\ SlackParked

\* One call of load_schema.
LoadSchema ==
    /\ lLast.calls < MaxLoads
    /\ LET done == ExploreSchemaLoader_load_schema(lCache, lFile)
       IN /\ lCache' = done.cache
          /\ lReads' = IF done.read THEN lReads + 1 ELSE lReads
          /\ lLast' = [calls |-> lLast.calls + 1, outcome |-> done.outcome,
                       value |-> done.value, error |-> done.error]
    /\ UNCHANGED <<lFile, notLoaderVars>>

\* The file is replaced, damaged or removed between two calls.
FileChanges(file) ==
    /\ lLast.calls < MaxLoads
    /\ file # lFile
    /\ lFile' = file
    /\ UNCHANGED <<lCache, lReads, lLast, notLoaderVars>>

NextLoader ==
    \/ LoadSchema
    \/ \E file \in ExploreSchemaFiles : FileChanges(file)

SpecLoader == InitLoader /\ [][NextLoader]_vars

\* ============================================================== claims
\* ---- under Spec

\* C1: by the time process_query returns, whatever the intent and whatever
\* failed, the call has appended exactly one turn to the conversation memory.
C1_ExactlyOneTurnPerCall == pc = "returned" => trace.appended = 1

\* The build step of the turn yielded a clarification result.
BuiltClarification ==
    "error" \in DOMAIN query_config /\ query_config["error"] = "clarification_needed"

\* C2: in a data-query turn whose build step yields a clarification result,
\* run_inline_query and the response synthesizer are never invoked and the
\* response of the turn has status 'clarification_needed'.
C2_ClarificationStopsTheTurn ==
    BuiltClarification =>
        /\ trace.runCalls = 0
        /\ trace.synthCalls = 0
        /\ pc \in {"remember", "return", "returned"}
        /\ response.status = "clarification_needed"

\* A data-query turn on a schema without the builder's field names has
\* returned its clarification.
C2_Witness ==
    /\ pc = "returned"
    /\ intent = "GATHER_DATA_FROM_LOOKER"
    /\ BuiltClarification
    /\ response.status = "clarification_needed"
    /\ trace.appended = 1

\* C3: when run_inline_query fails in a data-query turn, nothing the surface
\* shows to the user contains the text of the exception.
C3_NoRawErrorShown ==
    (pc = "returned" /\ trace.execError # "") => trace.execError \notin shown

\* The keys of the filters of a query body.
FilterKeys(body) == DOMAIN Get(body, "filters", EmptyObj)

\* C4: with a schema loaded and its builder in place, the body handed to run_inline_query names no
\* dimension, measure or filter key that the schema does not have, whichever
\* way the query was built.
C4_SentFieldsAreInSchema ==
    (trace.runCalls > 0 /\ schema.loaded /\ query_builder) =>
        /\ SeqToSet(trace.sent.dimensions) \subseteq schema.dims
        /\ SeqToSet(trace.sent.measures) \subseteq schema.meas
        /\ FilterKeys(trace.sent) \subseteq schema.dims

\* C7: when the triage module raises, _detect_intent returns
\* FRIENDLY_CONVERSATION, and the turn completes through the friendly handler:
\* its response is no error and the turn is recorded.
C7_TriageFailureIsFriendly ==
    trace.triageRaised =>
        /\ intent = "FRIENDLY_CONVERSATION"
        /\ pc \in {"remember", "return", "returned"} =>
               response.intent = "friendly" /\ response.status = "success"
        /\ pc = "returned" => trace.appended = 1

\* A turn whose triage raised has returned the friendly answer.
C7_Witness ==
    /\ pc = "returned"
    /\ trace.triageRaised
    /\ response.intent = "friendly"
    /\ response.message \in shown

\* ---- under SpecLooker

\* C5: authenticate is never in flight twice at the same time for one
\* service: at most one caller waits for the answer to POST /login.
C5_OneAuthenticateInFlight ==
    Cardinality({p \in Callers : call[p].pc = "login_wait"}) <= 1

\* C6 as stated: within one call a 401 triggers exactly one
\* re-authentication followed by exactly one re-send; the request is never
\* sent more than twice, and a second response that is not 200 ends the call
\* with LookerAPIError.
C6_ReauthThenResend ==
    \A p \in Callers :
        LET c == call[p]
        IN /\ c.sends <= 2
           /\ c.reauths <= 1
           /\ (c.pc = "done" /\ c.reauths = 1) => c.sends = 2
           /\ (c.pc = "done" /\ c.sends = 2 /\ StatusOf(c.last) # 200) =>
                  c.result = "LookerAPIError"

\* C6, amended: a 401 to the first send triggers exactly one
\* re-authentication; when it succeeds the request is re-sent exactly once,
\* when it fails the call raises LookerAuthError without a re-send.  The
\* request is never sent more than twice, and a second response that is not
\* 200 ends the call with LookerAPIError.
C6_RetryOnceOn401 ==
    \A p \in Callers :
        LET c == call[p]
        IN /\ c.sends <= 2
           /\ c.reauths <= 1
           /\ c.sends = 2 => c.reauths = 1
           /\ (c.pc = "done" /\ c.reauths = 1) =>
                  \/ c.sends = 2 /\ c.result # "LookerAuthError"
                  \/ c.sends = 1 /\ c.result = "LookerAuthError"
           /\ (c.pc = "done" /\ c.sends = 2 /\ StatusOf(c.last) # 200) =>
                  c.result = "LookerAPIError"

\* A call met a 401, authenticated again, sent the request again, met a
\* second 401 and raised LookerAPIError.
C6_Witness ==
    \E p \in Callers :
        /\ call[p].pc = "done"
        /\ call[p].reauths = 1
        /\ call[p].sends = 2
        /\ call[p].last = "401"
        /\ call[p].result = "LookerAPIError"

\* ---- under SpecValidator

\* No reference date makes the normalizer convert the time_intent.
Unconvertible(time_intent) ==
    \A today_iso \in Todays : to_absolute_range(time_intent, today_iso) = NoneStr

\* C8: whenever the draft handed to forward has a time_intent the normalizer
\* cannot convert, what forward returns is a ClarificationRequest with the
\* clarification_request key only.
C8_UnconvertibleGivesClarification ==
    ( /\ vStage # "input"
      /\ vQuery.kind = "object"
      /\ "time_intent" \in DOMAIN vQuery.obj
      /\ Unconvertible(vQuery.obj["time_intent"]) )
    => /\ vOnce.kind = "object"
       /\ DOMAIN vOnce.obj = {"clarification_request"}

\* forward returned a query draft.
ReturnedDraft ==
    /\ vStage # "input"
    /\ vOnce.kind = "object"
    /\ "clarification_request" \notin DOMAIN vOnce.obj

\* C9: a draft returned by forward has no time_intent; when the draft handed
\* in had a time_intent that normalizes to a range, the range is in filters
\* under the date field and every other filter entry is as it was.
C9_ReturnedDraftIsTerminal ==
    ReturnedDraft =>
        /\ "time_intent" \notin DOMAIN vOnce.obj
        /\ ( /\ "time_intent" \in DOMAIN vQuery.obj
             /\ to_absolute_range(vQuery.obj["time_intent"], vToday) # NoneStr )
           => LET before == Get(vQuery.obj, "filters", EmptyObj)
                  after == Get(vOnce.obj, "filters", EmptyObj)
              IN /\ DateField \in DOMAIN after
                 /\ after[DateField] = to_absolute_range(vQuery.obj["time_intent"], vToday)
                 /\ DOMAIN after = DOMAIN before \cup {DateField}
                 /\ \A k \in DOMAIN before \ {DateField} : after[k] = before[k]

\* C10: forward applied to its own output, with the same reference date and
\* the capability leaving a valid query as it is, returns that output.
C10_Idempotent == vStage = "twice" => vTwice = vOnce

\* forward resolved a time_intent into the filters, and forward again
\* changed nothing.
C10_Witness ==
    /\ vStage = "twice"
    /\ vQuery.kind = "object"
    /\ "time_intent" \in DOMAIN vQuery.obj
    /\ vOnce.kind = "object"
    /\ "time_intent" \notin DOMAIN vOnce.obj
    /\ DateField \in DOMAIN Get(vOnce.obj, "filters", EmptyObj)
    /\ vOnce # vQuery
    /\ vTwice = vOnce

\* The draft breaks the pivot constraint: more than one pivot, or a pivot
\* that is not among its fields.
BreaksPivotConstraint(draft) ==
    /\ "pivots" \in DOMAIN draft
    /\ \/ Len(draft["pivots"]) > 1
       \/ \E i \in DOMAIN draft["pivots"] :
              draft["pivots"][i] \notin SeqToSet(Get(draft, "fields", << >>))

\* C11: a draft with two pivots, or with a pivot that is not among its
\* fields, is never returned by forward as a query draft.
C11_PivotConstraintEnforced ==
    ( /\ vStage # "input"
      /\ vQuery.kind = "object"
      /\ "clarification_request" \notin DOMAIN vQuery.obj
      /\ BreaksPivotConstraint(vQuery.obj) )
    => ~ReturnedDraft

\* ---- under SpecDates
\* date.toordinal(): the number of the day, 0001-01-01 being day 1.
RECURSIVE DaysBeforeMonth(_, _)
DaysBeforeMonth(y, m) ==
    IF m = 1 THEN 0 ELSE DaysBeforeMonth(y, m - 1) + DaysInMonth(y, m - 1)

DayNumber(dt) ==
    LET y == dt[1] - 1
    IN 365 * y + (y \div 4) - (y \div 100) + (y \div 400)
           + DaysBeforeMonth(dt[1], dt[2]) + dt[3]

RangeText(start, end) == isoformat(start) \o " to " \o isoformat(end)

\* to_absolute_range has returned for last_n_days with an integer n >= 1 and
\* a valid reference date.
LastNDaysCase ==
    /\ dStage = "done"
    /\ ValidDate(dToday)
    /\ DOMAIN dIntent = {"preset", "n"}
    /\ dIntent["preset"] = "last_n_days"
    /\ dIntent["n"].t = "int"
    /\ dIntent["n"].v >= 1

\* The returned range ends at D, starts n-1 days before D and is the text of
\* those two dates.
SpansNDaysToToday ==
    /\ dRange # << >>
    /\ dRange[2] = dToday
    /\ ValidDate(dRange[1])
    /\ DayNumber(dRange[1]) = DayNumber(dToday) - (dIntent["n"].v - 1)
    /\ DayNumber(dRange[2]) - DayNumber(dRange[1]) + 1 = dIntent["n"].v
    /\ dResult = RangeText(dRange[1], dRange[2])

\* C14 as stated: for every valid reference date D and every integer n >= 1,
\* last_n_days(n) returns the range that ends at D and starts n-1 days
\* before D, spanning n calendar days.
C14_LastNDaysEveryDate == LastNDaysCase => SpansNDaysToToday

\* C14: for every valid reference date D and every integer n >= 1 such that
\* the day n-1 days before D is not before 0001-01-01, last_n_days(n) returns
\* the range that ends at D and starts n-1 days before D, spanning n calendar
\* days; when that day is before 0001-01-01 the result is None.
C14_LastNDaysWithinCalendar ==
    LastNDaysCase =>
        IF DayNumber(dToday) - (dIntent["n"].v - 1) >= 1
        THEN SpansNDaysToToday
        ELSE dResult = NoneStr

\* last_n_days over a year boundary: 7 days ending 2025-01-01.
C14_Witness ==
    /\ LastNDaysCase
    /\ dToday = <<2025, 1, 1>>
    /\ dIntent["n"].v = MaxN
    /\ dRange # << >>
    /\ dRange[1][1] = 2024

\* to_absolute_range has returned for the preset with nothing else in the
\* intent and a valid reference date.
PresetCase(preset) ==
    /\ dStage = "done"
    /\ ValidDate(dToday)
    /\ DOMAIN dIntent = {"preset"}
    /\ dIntent["preset"] = preset

\* The months first to last of year y, from the first day to the last.
WholeMonths(y, first, last) == <<<<y, first, 1>>, <<y, last, DaysInMonth(y, last)>>>>

\* The calendar period before the one D is in.
PrecedingPeriod(preset, D) ==
    LET quarter == (D[2] - 1) \div 3
    IN CASE preset = "prev_month" ->
                IF D[2] = 1 THEN WholeMonths(D[1] - 1, 12, 12)
                ELSE WholeMonths(D[1], D[2] - 1, D[2] - 1)
         [] preset = "prev_quarter" ->
                IF quarter = 0 THEN WholeMonths(D[1] - 1, 10, 12)
                ELSE WholeMonths(D[1], 3 * quarter - 2, 3 * quarter)
         [] preset = "prev_year" -> WholeMonths(D[1] - 1, 1, 12)

PrevPresets == {"prev_month", "prev_quarter", "prev_year"}

ReturnsPrecedingPeriod(preset) ==
    LET period == PrecedingPeriod(preset, dToday)
    IN /\ dRange = period
       /\ dResult = RangeText(period[1], period[2])

\* C15 as stated: for every valid reference date D, prev_month, prev_quarter
\* and prev_year return the whole calendar month, quarter and year before
\* the one D is in.
C15_PrecedingPeriodEveryDate ==
    \A preset \in PrevPresets : PresetCase(preset) => ReturnsPrecedingPeriod(preset)

\* C15: for every valid reference date D whose preceding month, quarter or
\* year is in the calendar (year 1 or later), prev_month, prev_quarter and
\* prev_year return that whole month, quarter or year, also when it lies in
\* the previous year; when it is before year 1 the result is None.
C15_PrecedingPeriodWithinCalendar ==
    \A preset \in PrevPresets :
        PresetCase(preset) =>
            IF PrecedingPeriod(preset, dToday)[1][1] >= 1
            THEN ReturnsPrecedingPeriod(preset)
            ELSE dResult = NoneStr

\* prev_quarter in January: the last quarter of the year before.
C15_Witness ==
    /\ PresetCase("prev_quarter")
    /\ dToday = <<2025, 1, 15>>
    /\ dResult = "2024-10-01 to 2024-12-31"

\* to_absolute_range has returned for an absolute intent with two dates that
\* exist, the start later than the end, and a valid reference date.
ReversedAbsoluteCase ==
    /\ dStage = "done"
    /\ ValidDate(dToday)
    /\ DOMAIN dIntent = {"preset", "start", "end"}
    /\ dIntent["preset"] = "absolute"
    /\ ValidDate(dIntent["start"])
    /\ ValidDate(dIntent["end"])
    /\ DayNumber(dIntent["start"]) > DayNumber(dIntent["end"])

\* C16: every result of to_absolute_range that is not None is the text
\* 'start to end' of two dates with start <= end; an absolute intent whose
\* start is later than its end is returned with the two dates swapped.
C16_StartNotAfterEnd ==
    /\ (dStage = "done" /\ dResult # NoneStr) =>
          /\ dRange # << >>
          /\ ValidDate(dRange[1])
          /\ ValidDate(dRange[2])
          /\ DayNumber(dRange[1]) <= DayNumber(dRange[2])
          /\ dResult = RangeText(dRange[1], dRange[2])
    /\ ReversedAbsoluteCase =>
          dResult = RangeText(dIntent["end"], dIntent["start"])

\* The reversed absolute range 2025-09-10 .. 2025-09-01 came back swapped.
C16_Witness ==
    /\ ReversedAbsoluteCase
    /\ dIntent["start"] = <<2025, 9, 10>>
    /\ dIntent["end"] = <<2025, 9, 1>>
    /\ dResult = "2025-09-01 to 2025-09-10"

\* n is not an integer >= 1; True and False are the integers 1 and 0.
NotAnIntegerAtLeastOne(n) == ~(n.t \in {"int", "bool"} /\ n.v >= 1)

\* The time_intent is one of those that have no range.
FailureCase ==
    \/ "@nondict" \in DOMAIN dIntent
    \/ "preset" \notin DOMAIN dIntent
    \/ /\ "preset" \in DOMAIN dIntent
       /\ \/ dIntent["preset"] \notin Presets
          \/ /\ dIntent["preset"] = "last_n_days"
             /\ "n" \in DOMAIN dIntent
             /\ NotAnIntegerAtLeastOne(dIntent["n"])
          \/ /\ dIntent["preset"] = "absolute"
             /\ \/ "start" \notin DOMAIN dIntent
                \/ "end" \notin DOMAIN dIntent
                \/ ~ValidDate(Get(dIntent, "start", NoneDate))
                \/ ~ValidDate(Get(dIntent, "end", NoneDate))

\* C17: to_absolute_range returns for every input, and returns None when
\* time_intent is not a mapping, when preset is missing or not a recognized
\* tag, when last_n_days carries an n that is not an integer >= 1, and when
\* an absolute intent has a missing or malformed start or end.
C17_NoneOnBadIntent ==
    dStage = "done" =>
        /\ dResult = NoneStr \/ dRange # << >>
        /\ FailureCase => (dResult = NoneStr /\ dRange = << >>)

\* last_n_days with the string "7" for n, under a valid reference date, gave
\* None.
C17_Witness ==
    /\ dStage = "done"
    /\ ValidDate(dToday)
    /\ DOMAIN dIntent = {"preset", "n"}
    /\ dIntent["n"].t = "str"
    /\ dResult = NoneStr

\* ---- under SpecBuilder
\* The result is a clarification: it has one of the keys under which a
\* clarification is reported.
ClarificationKeys == {"clarification_request", "error"}

IsClarification(out) == DOMAIN out \cap ClarificationKeys # {}

\* The query names a dimension or a measure the schema does not have.
UnknownFields(s, query) ==
    (SeqToSet(Get(query, "dimensions", << >>)) \ SeqToSet(s.filters))
        \cup (SeqToSet(Get(query, "measures", << >>)) \ SeqToSet(s.measures))

\* C12: validating a query that names a dimension or measure the schema does
\* not have gives a clarification; the field is not dropped from the query
\* and other fields are not put in its place.
C12_UnknownFieldGivesClarification ==
    (bOp = "validate_query" /\ UnknownFields(bSchema, bQuery) # {})
        => IsClarification(bOut)

\* The keys of a query.
QueryKeys ==
    {"model", "view", "explore", "fields", "dimensions", "measures", "pivots",
     "filters", "sorts", "limit"}

HasQueryKeys(out) == DOMAIN out \cap QueryKeys # {}

\* C13: every result of build_query_from_intent and of
\* _parse_and_validate_query is a clarification without query keys or a
\* query without a clarification key, never both at once.
C13_ExactlyOneShape ==
    bOp \in {"build_query_from_intent", "parse_and_validate_query"}
        => (IsClarification(bOut) # HasQueryKeys(bOut))

\* An entry of a keyword table has a keyword occurring in the text.
EntryOccurs(entry, text) == \E kw \in entry.keywords : KwIn(kw, text)

\* The text has no keyword of the dimension table nor of the measure table.
NoKeyword(text) ==
    /\ \A i \in DOMAIN dimension_keywords : ~EntryOccurs(dimension_keywords[i], text)
    /\ \A i \in DOMAIN measure_keywords : ~EntryOccurs(measure_keywords[i], text)

\* C18: build_query_from_intent returns a clarification, not a query, when
\* the text has no keyword of the dimension and measure tables and the
\* explicit parameters are empty, whatever the schema.
C18_NoKeywordGivesClarification ==
    (bOp = "build_query_from_intent" /\ bParams = EmptyObj /\ NoKeyword(bText))
        => (IsClarification(bOut) /\ ~HasQueryKeys(bOut))

\* The dimensions of the result; none when it is the clarification, which is
\* returned when no dimension and no measure was selected.
SelectedDimensions == IF IsClarification(bOut) THEN << >> ELSE bOut["dimensions"]

\* The entry of the dimension table is a dimension of the schema and has a
\* keyword in the text.
DimensionHit(i) ==
    /\ dimension_keywords[i].name \in SeqToSet(bSchema.filters)
    /\ EntryOccurs(dimension_keywords[i], bText)

\* C19: the selected dimension is the explicit dimension parameter when it
\* is a dimension of the schema; otherwise the first entry of the keyword
\* table, in table order, that is in the schema and has a keyword in the
\* lower-cased text; otherwise 'country' when the schema has it; otherwise
\* none.  At most one dimension is selected and it is one of the schema's.
C19_DimensionSelection ==
    bOp = "build_query_from_intent" =>
        LET known == SeqToSet(bSchema.filters)
            hits == {i \in DOMAIN dimension_keywords : DimensionHit(i)}
        IN /\ Len(SelectedDimensions) <= 1
           /\ SeqToSet(SelectedDimensions) \subseteq known
           /\ IF "dimension" \in DOMAIN bParams /\ bParams["dimension"] \in known
              THEN SelectedDimensions = <<bParams["dimension"]>>
              ELSE IF hits # {}
              THEN \E i \in hits :
                      /\ \A j \in hits : i <= j
                      /\ SelectedDimensions = <<dimension_keywords[i].name>>
              ELSE IF "country" \in known
              THEN SelectedDimensions = <<"country">>
              ELSE SelectedDimensions = << >>

\* 'customers type' has keywords of product_category and customer_segment;
\* the schema has both and product_category, first in the table, is selected.
C19_Witness ==
    /\ bOp = "build_query_from_intent"
    /\ bText = <<W("customers"), W("type")>>
    /\ bParams = EmptyObj
    /\ DimensionHit(3)
    /\ DimensionHit(4)
    /\ ~IsClarification(bOut)
    /\ bOut["dimensions"] = <<"product_category">>

\* The number after the first token ending in the word, when a number
\* follows such a token.
NumberAfter(word, text) ==
    LET at == {i \in 1..(Len(text) - 1) :
                  word \in SuffixesOf(lower(text[i].w)) /\ IsNum(text[i + 1])}
    IN IF at = {} THEN << >> ELSE <<text[Min(at) + 1].n>>

\* The first number followed by a token starting with 'result'.
NumberBeforeResults(text) ==
    LET at == {i \in 1..(Len(text) - 1) :
                  IsNum(text[i]) /\ "result" \in PrefixesOf(lower(text[i + 1].w))}
    IN IF at = {} THEN << >> ELSE <<text[Min(at)].n>>

\* C20: the limit of a query built by build_query_from_intent is the
\* explicit limit parameter when given; otherwise the number of the first
\* matching pattern among 'top N', 'first N', 'show N', 'N results', in that
\* order; otherwise 10.
C20_LimitSelection ==
    (bOp = "build_query_from_intent" /\ ~IsClarification(bOut)) =>
        LET captured == NumberAfter("top", bText) \o NumberAfter("first", bText)
                            \o NumberAfter("show", bText) \o NumberBeforeResults(bText)
        IN bOut["limit"] = IF "limit" \in DOMAIN bParams THEN bParams["limit"]
                           ELSE IF captured # << >> THEN captured[1]
                           ELSE 10

\* 'Show 3 orders first 4 top 2': three patterns match and 'top N', the last
\* in the text, gives the limit.
C20_Witness ==
    /\ bOp = "build_query_from_intent"
    /\ bText = <<W("Show"), N(3), W("orders"), W("first"), N(4), W("top"), N(2)>>
    /\ "limit" \notin DOMAIN bParams
    /\ ~IsClarification(bOut)
    /\ bOut["limit"] = 2

\* The first date pattern, in the order of the list, that occurs in the
\* text: the days of 'last N days', the months of 'past N months', a run of
\* four digits, a month name; "none" when none occurs.
FirstDatePattern(text) ==
    IF \E i \in 1..(Len(text) - 2) :
          /\ "last" \in SuffixesOf(lower(text[i].w))
          /\ IsNum(text[i + 1])
          /\ "day" \in PrefixesOf(lower(text[i + 2].w))
    THEN "days"
    ELSE IF \E i \in 1..(Len(text) - 2) :
               /\ "past" \in SuffixesOf(lower(text[i].w))
               /\ IsNum(text[i + 1])
               /\ "month" \in PrefixesOf(lower(text[i + 2].w))
    THEN "months"
    ELSE IF \E i \in 1..Len(text) : text[i].digits >= 4
    THEN "year"
    ELSE IF \E i \in 1..Len(text) : SubstringsOf(lower(text[i].w)) \cap MonthNames # {}
    THEN "month_name"
    ELSE "none"

\* The filters of the explicit parameters.
GivenFilters == Get(bParams, "filters", EmptyObj)

\* C21: the date patterns are tried in the order 'last N days', 'past N
\* months', four-digit year, month name; the first that occurs in the text
\* gives the one date filter of the built query, the later ones give
\* nothing, and without an occurrence the filters are those of the
\* parameters.
C21_FirstPatternSetsDateFilter ==
    (bOp = "build_query_from_intent" /\ ~IsClarification(bOut)) =>
        LET filters == bOut["filters"]
            pattern == FirstDatePattern(bText)
        IN /\ DOMAIN filters \subseteq DOMAIN GivenFilters \cup {"date"}
           /\ \A k \in DOMAIN GivenFilters \ {"date"} : filters[k] = GivenFilters[k]
           /\ CASE pattern = "days" ->
                     \E i \in 1..(Len(bText) - 1) :
                         /\ IsNum(bText[i])
                         /\ Get(filters, "date", "") = "last " \o ToString(bText[i].n) \o " days"
                [] pattern = "months" ->
                     \E i \in 1..(Len(bText) - 1) :
                         /\ IsNum(bText[i])
                         /\ Get(filters, "date", "") = "last " \o ToString(bText[i].n) \o " months"
                [] pattern = "year" ->
                     \E i \in 1..Len(bText) :
                         /\ bText[i].digits = 4
                         /\ Get(filters, "date", "") = "year " \o ToString(bText[i].n)
                [] pattern = "month_name" -> "date" \in DOMAIN filters
                [] OTHER -> filters = GivenFilters

\* ---- under SpecMemory
\* The last n elements of a sequence.
LastOf(seq, n) == [i \in 1..n |-> seq[Len(seq) - n + i]]

\* C22: get_recent_history(k) returns the last min(k, L) turns of the
\* history of length L, in the order they were added, for every k >= 0;
\* add_turn appends one turn and leaves the earlier turns as they were.
C22_LastMinKLTurns ==
    /\ (mLast # EmptyObj /\ mLast.op = "get_recent_history") =>
          LET L == Len(mLast.history)
              k == mLast.arg
          IN mLast.result = LastOf(mLast.history, IF k < L THEN k ELSE L)
    /\ (mLast # EmptyObj /\ mLast.op = "add_turn") =>
          /\ Len(mHistory) = Len(mLast.history) + 1
          /\ \A i \in 1..Len(mLast.history) : mHistory[i] = mLast.history[i]
          /\ mHistory[Len(mHistory)].user_query = mLast.arg

NoDuplicates(seq) == \A i, j \in DOMAIN seq : seq[i] = seq[j] => i = j

\* C23: after any sequence of memory operations the profile's
\* data_interests and query_patterns hold no value twice, and adding a value
\* that is already there leaves the collection as it was.
C23_NoDuplicateInterests ==
    /\ NoDuplicates(mProfile["data_interests"])
    /\ NoDuplicates(mProfile["query_patterns"])
    /\ (mLast # EmptyObj /\ mLast.op = "add_data_interest"
            /\ mLast.arg \in SeqToSet(mLast.profile["data_interests"]))
          => mProfile["data_interests"] = mLast.profile["data_interests"]
    /\ (mLast # EmptyObj /\ mLast.op = "add_query_pattern"
            /\ mLast.arg \in SeqToSet(mLast.profile["query_patterns"]))
          => mProfile["query_patterns"] = mLast.profile["query_patterns"]

\* The last operation was op.
JustDid(op) == mLast # EmptyObj /\ mLast.op = op

\* The history is empty and the profile is as it was before the operation.
ClearedOnly == mHistory = << >> /\ mProfile = mLast.profile

\* The three collections of the profile are empty.
EmptyCollections ==
    /\ mProfile["preferences"] = EmptyObj
    /\ mProfile["data_interests"] = << >>
    /\ mProfile["query_patterns"] = << >>

\* C24 as stated: clear_history empties the history and leaves the profile
\* unchanged; reset_session empties the history and leaves a profile with
\* empty preferences, data_interests and query_patterns and no other keys.
C24_ResetLeavesThreeKeys ==
    /\ JustDid("clear_history") => ClearedOnly
    /\ JustDid("reset_session") =>
          /\ mHistory = << >>
          /\ DOMAIN mProfile = {"preferences", "data_interests", "query_patterns"}
          /\ EmptyCollections

\* C24: clear_history empties the history and leaves the profile unchanged;
\* reset_session empties the history and leaves the profile of a new
\* memory: empty preferences, data_interests and query_patterns, created_at
\* and updated_at at the time of the reset, and no other keys.
C24_ClearKeepsResetRenews ==
    /\ JustDid("clear_history") => ClearedOnly
    /\ JustDid("reset_session") =>
          /\ mHistory = << >>
          /\ DOMAIN mProfile = {"preferences", "data_interests", "query_patterns",
                                "created_at", "updated_at"}
          /\ EmptyCollections
          /\ mProfile["created_at"] = mNow
          /\ mProfile["updated_at"] = mNow

\* reset_session on a memory with a turn and a profile that had got the key
\* role.
C24_Witness ==
    /\ JustDid("reset_session")
    /\ mLast.history # << >>
    /\ "role" \in DOMAIN mLast.profile
    /\ mHistory = << >>
    /\ "role" \notin DOMAIN mProfile

\* ---- under SpecRecipes

\* The query a first call on the catalog as loaded returns.
FirstCallQuery ==
    build_query_from_catalog(rLast.loaded, rLast.recipe_name, rLast.parameters).query

\* C25: after any sequence of calls of _build_query_from_recipe the catalog
\* is the catalog as loaded, and the call just made returned what a first
\* call with its recipe and parameters would have returned.
C25_CatalogUnchangedByCalls ==
    rCalls > 0 =>
        /\ rCatalog = rLast.loaded
        /\ rLast.query = FirstCallQuery

\* ---- under SpecSlack

\* C26: when SlackApp.stop has returned, the Socket Mode connection and the
\* LookerService client are closed (or were never opened) and the service
\* does not report is_running.
C26_StopClosesEverything ==
    sPc = "returned" =>
        /\ sHandler = "closed"
        /\ sLookerClient \in {"none", "closed"}
        /\ ~sRunning

\* ---- under SpecLoader

\* The files whose load fails: no file, no JSON, or a JSON value that is no
\* object with the keys explore, model and filters.
FailingFile(file) ==
    \/ file.kind \in {"missing", "invalid_json"}
    \/ /\ file.kind = "json"
       /\ ~(/\ file.value.type = "dict"
            /\ {"explore", "model", "filters"} \subseteq DOMAIN file.value.obj)

\* A call of load_schema is the step.
LoadSchemaCalled == lLast'.calls = lLast.calls + 1

\* C29: once a load has succeeded, every later call returns the cached object
\* without opening the file, whatever the file holds by then; a call with no
\* cache opens the file, and when it fails it raises and leaves the cache
\* unset, when it returns it caches what it returns.
C29_LoadOnceRetryOnFailure ==
    [][ /\ lCache # NoCache =>
            /\ lCache' = lCache
            /\ lReads' = lReads
            /\ LoadSchemaCalled =>
                   lLast'.outcome = "returned" /\ lLast'.value = lCache
        /\ (LoadSchemaCalled /\ lCache = NoCache) =>
            /\ lReads' = lReads + 1
            /\ FailingFile(lFile) => lLast'.outcome = "raised"
            /\ lLast'.outcome = "raised" => lCache' = NoCache
            /\ lLast'.outcome = "returned" =>
                   lCache' = lFile.value /\ lLast'.value = lFile.value
      ]_vars

\* ---- under Spec

\* C28: when a turn that ended in clarification has returned, the turn was
\* logged once, the insight extractor was not invoked during it, and the
\* user profile is the profile the turn started with.
C28_ClarificationOnlyLogsTurn ==
    (pc = "returned" /\ response.status = "clarification_needed") =>
        /\ trace.appended = 1
        /\ trace.insightCalls = 0
        /\ user_profile = trace.profileBefore

\* ---- under SpecLooker

\* The token is missing, has no recorded expiry, or the clock has reached
\* the recorded expiry.
TokenMissingOrExpired ==
    \/ access_token = "none"
    \/ Len(token_expires_at) = 0
    \/ token_expires_at[1] <= now

\* The caller's step sends the request.
Sends(p) == call'[p].sends > call[p].sends

\* C27: a call that begins authenticates first exactly when the token is
\* missing, has no recorded expiry or has reached it (so also in the first
\* call after aclose), and no step sends a request with access_token unset.
C27_LazyRefreshBeforeEveryRequest ==
    [][ \A p \in Callers :
          /\ (call[p].pc = "idle" /\ call'[p].pc # "idle") =>
                 /\ call'[p].pc = "login_wait" <=> TokenMissingOrExpired
                 /\ call'[p].pc # "login_wait" => Sends(p)
          /\ Sends(p) => access_token' # "none"
      ]_vars

\* An answer to POST /login has made authenticate raise LookerAuthError.
AuthenticateFailed(p) ==
    /\ call[p].pc = "login_wait"
    /\ call'[p].pc = "done"
    /\ call'[p].result = "LookerAuthError"

\* C30: a step in which authenticate raises LookerAuthError leaves
\* access_token and token_expires_at as they were; the two are stored
\* together, in the step in which authenticate succeeds.
C30_FailedAuthenticateChangesNothing ==
    [][ \A p \in Callers :
          /\ AuthenticateFailed(p) =>
                 UNCHANGED <<access_token, token_expires_at>>
          /\ (call[p].pc = "login_wait" /\ call'[p] # call[p]
                /\ ~AuthenticateFailed(p)) =>
                 Len(token_expires_at') = 1
      ]_vars

====
